---- MODULE Spec2Model ----
(***************************************************************************)
(* Model of mangl (src/main.c): the navigation stack of loaded man pages,  *)
(* the launcher's ranked search over the catalog of page names and the     *)
(* page-local incremental search of the displayed document.                *)
(*                                                                         *)
(* Four specifications share the variables:                                *)
(*   Spec         the navigation stack (open_new_page, page_back,          *)
(*                page_forward, Ctrl-F);                                   *)
(*   SpecSearch   query editing in the view the program started in: the    *)
(*                launcher (update_search) or one displayed document       *)
(*                (update_page_search);                                    *)
(*   SpecView     one displayed document: scrolling, resizing, the         *)
(*                page-local search and its current match;                 *)
(*   SpecResults  the launcher's result box: query editing, selection      *)
(*                and scrolling of the results.                            *)
(* Characters are their ASCII codes; C arrays indexed from 0 are sequences *)
(* indexed from 1, so C slot i is element i + 1.                           *)
(***************************************************************************)
EXTENDS Integers, Sequences, FiniteSets, TLC

\* ------------------------------------------------------------------ bounds
\* documents loaded during one run
MaxOpens == 4
\* navigation events remembered by the history variable
HistLen == 3
\* capacity of the launcher's result array as modelled; ARRAY_SIZE(matches) is
\* 100 in the source (src/main.c:182) and is scaled down with the catalog
MaxMatches == 3
\* catalog entries beyond the capacity of the result array
ExtraEntries == 1
\* longest page name of a catalog key
MaxNameLen == 2
\* longest launcher query typed
MaxQueryLen == 3
\* capacity of a page's match array as modelled; ARRAY_SIZE(p->searches) is
\* 100 in the source (src/main.c:586) and is scaled down with the documents
MaxSearches == 3
\* lines of the displayed document
MaxLines == 2
\* bytes of one line of the displayed document
MaxLineLen == 3
\* bytes of the displayed document
MaxDocBytes == 4
\* longest page-local query typed
MaxPageQueryLen == 2
\* rows of the launcher's result box as modelled; N_SHOWN_RESULTS is 12 in the
\* source (src/main.c:174) and is scaled down with the result array
N_SHOWN_RESULTS == 2
\* lines of the document whose view is scrolled
MaxViewLines == 6
\* slots outside page->searches that the current-match index is followed into
MaxStray == 1
\* capacity of find_links' word buffer as modelled; current_word has 256 bytes
\* in the source (src/main.c:987) and is scaled down with the scanned lines
CurrentWordSize == 5
\* bytes of the document find_links scans, one counted for every line break
MaxLinkBytes == 5
\* lines of the document find_links scans
MaxLinkLines == 2
\* files make_manpage_database parses in one run
MaxGlobbed == 3
\* bytes manpath prints before the end of its line
MaxManpathBytes == 2
\* calls of get_man_paths_from_manpath_executable in one run
MaxManpathCalls == 4
\* documents loaded while pages are scrolled and the history is walked
MaxHistoryDocs == 2
\* the ranking of the launcher is compared on keys whose match starts at
\* 0..MaxMatchPosition
MaxMatchPosition == 1
\* bytes the formatter emits into one page
MaxFormatBytes == 3
\* lines the formatter begins in one page
MaxFormatLines == 3
\* letters dropped with a diagnostic while one page is formatted
MaxDropped == 2
\* bytes of the first buffer of a span: 32 in the source, scaled with
\* MaxFormatBytes so that a span outgrows it
STARTING_SPAN_SIZE == 3

\* --------------------------------------------------------------- constants
NULL == 0
D_MANPAGE == 0
D_SEARCH == 1
\* man page files that open_new_page is asked to load
Files == {"ls.1", "cat.1"}
\* make_manpage_database: two of the directories of paths[]
ManDirs == {"/usr/share/man", "/usr/local/man"}
\* the directory of the catalog entry of each file that is opened
FileDirs == [f \in Files |-> IF f = "ls.1" THEN "/usr/share/man" ELSE "/usr/local/man"]
\* the directory the program is started in
StartDir == "/home"
\* characters of page names: 'a' and 'A'
NameChars == {97, 65}
\* section names of the scanned files: the empty one of a file "name."
Sections == {<< >>}
\* characters typed into the launcher: 'a', 'A', '(' and ')'
QueryChars == {97, 65, 40, 41}
\* bytes the formatter emits into a line: 'a', 'A' and backspace
PageChars == {97, 65, 8}
\* code points the formatter emits: 'a', U+00FF, U+0100, U+2014 (em dash),
\* U+2264, U+2265 and U+3042
FormatLetters == {97, 255, 256, 8212, 8804, 8805, 12354}
\* bytes of the lines find_links scans: 'a', '(', ')', ' ' and backspace
LinkChars == {97, 40, 41, 32, 8}
\* characters typed into the page-local search: 'a' and 'A'
PageQueryChars == {97, 65}
\* char line[2048] of update_page_search
LineBufferSize == 2048
\* FONT_CHAR_WIDTH, the advance of the built-in font
FONT_CHAR_WIDTH == 7
\* FONT_CHAR_HEIGHT, the line height of the built-in font
FONT_CHAR_HEIGHT == 14
\* dimensions[DIM_DOCUMENT_MARGIN]
DIM_DOCUMENT_MARGIN == 29
\* dimensions[DIM_SCROLL_AMOUNT]
DIM_SCROLL_AMOUNT == 40
\* window heights: 40 rows of the built-in font at start, or resized to 40 pixels
WindowHeights == {40, 560}
\* window heights of the scrolled view: resized to 8 rows, or the 40 rows at start
ViewWindowHeights == {112, 560}
\* lines of the scrolled document: "a" or "b"
ViewLineTexts == {<<97>>, <<98>>}
\* characters typed into the page-local search of the scrolled document: 'a'
ViewQueryChars == {97}
\* characters typed into the launcher whose result box is scrolled: 'a'
ResultQueryChars == {97}

VARIABLES
    page_stack,     \* struct manpage **page_stack: document ids, NULL for an emptied slot
    stack_pos,      \* size_t stack_pos: index of the displayed page + 1
    page,           \* struct manpage *page: the displayed document, or NULL
    display_mode,   \* D_MANPAGE or D_SEARCH
    n_alloc,        \* number of documents load_manpage has allocated
    doc_file,       \* page->filename of every allocated document
    freed,          \* documents on which free_manpage has run
    hist,           \* the last HistLen navigation events, each with the state before it
    manpage_names,        \* char **manpage_names: the catalog keys, sorted
    manpage_names_lower,  \* char **manpage_names_lower: the same keys lowercased
    search_term,          \* char search_term[512]: the launcher query
    matches,              \* matches[]: (idx, goodness) pairs, idx counted from 0
    matches_count,
    results_selected_index,
    results_view_offset,
    scan_i,               \* update_search: loop index i, sb_count(manpage_names) when the loop is over
    selection_before,     \* history: selection index and view offset when update_search last began
    lines,                        \* page->document.lines: the bytes of each line's span
    window_height,
    scroll_position,              \* page->scroll_position
    search_start_scroll_position, \* page->search_start_scroll_position
    search_input_active,          \* page->search_input_active
    search_string,                \* page->search_string
    search_visible,               \* page->search_visible
    searches,                     \* page->searches: match rectangles, stale beyond search_num
    search_num,                   \* page->search_num
    search_index,                 \* page->search_index
    redisplay_needed,             \* bool redisplay_needed: a render is due
    cwd,                  \* the working directory of the process (chdir)
    doc_pwd,              \* page->pwd of every allocated document
    doc_fields,           \* scroll_position and search_visible of every allocated document
    last_chdir,           \* history: what the last open_new_page did with chdir
    manpage_database,     \* map_t manpage_database: key -> file
    manpage_database_pwd, \* map_t manpage_database_pwd: key -> directory
    discovered,           \* history: the files make_manpage_database has parsed, in order
    database_pc,          \* make_manpage_database: "glob" in the loops, "done" after the sort
    formatting_page,      \* struct manpage *formatting_page, NULL outside the formatter
    load_state,           \* load_manpage and find_links: position and locals, and the
                          \* number of "Letter" diagnostics add_to_span has printed
    links,                \* page->links of the page being loaded
    manpath_paths,            \* static manpath_paths: the array of paths, << >> while it is NULL
    number_of_manpath_paths,  \* static number_of_manpath_paths
    manpath_buffer,           \* static buffer: the output of manpath last read
    manpath_calls,            \* history: what each call returned and whether it ran manpath
    clicked_in_link,          \* mouse_button_func: static clicked_in_link
    link,                     \* mouse_button_func: static link, the copy made on a press
    scrollbar_dragging        \* scrollbar_dragging

nav_vars == <<page_stack, stack_pos, page, display_mode, n_alloc, doc_file, freed, hist>>

dir_vars == <<cwd, doc_pwd, doc_fields, last_chdir>>

load_vars == <<manpage_database, manpage_database_pwd, discovered, database_pc,
              formatting_page, load_state, links>>

manpath_vars == <<manpath_paths, number_of_manpath_paths, manpath_buffer, manpath_calls>>

mouse_vars == <<clicked_in_link, link, scrollbar_dragging>>

launcher_vars == <<manpage_names, manpage_names_lower, search_term, matches, matches_count,
                   results_selected_index, results_view_offset, scan_i, selection_before>>

doc_vars == <<lines, window_height, scroll_position, search_start_scroll_position,
              search_input_active, search_string, search_visible, searches, search_num,
              search_index>>

vars == <<page_stack, stack_pos, page, display_mode, n_alloc, doc_file, freed, hist,
          manpage_names, manpage_names_lower, search_term, matches, matches_count,
          results_selected_index, results_view_offset, scan_i, selection_before,
          lines, window_height, scroll_position, search_start_scroll_position,
          search_input_active, search_string, search_visible, searches, search_num,
          search_index, redisplay_needed, cwd, doc_pwd, doc_fields, last_chdir,
          manpage_database, manpage_database_pwd, discovered, database_pc,
          formatting_page, load_state, links,
          manpath_paths, number_of_manpath_paths, manpath_buffer, manpath_calls,
          clicked_in_link, link, scrollbar_dragging>>

\* post_redisplay
post_redisplay == redisplay_needed' = TRUE

\* sb_count(page_stack)
sb_count(a) == Len(a)

\* the navigation state an event starts from or ends in
NavState == [page_stack |-> page_stack, stack_pos |-> stack_pos, page |-> page,
             display_mode |-> display_mode, freed |-> freed, doc_file |-> doc_file,
             doc_fields |-> doc_fields]

\* load_manpage: ZMALLOC leaves the fields of a new document zero
ZeroFields == [scroll_position |-> 0, search_visible |-> 0]

Record(op, f) ==
    LET h == Append(hist, [op |-> op, file |-> f, pre |-> NavState])
    IN  IF Len(h) > HistLen THEN Tail(h) ELSE h

\* load_manpage: a document is allocated for the file; a file that cannot be
\* opened ends the process (exit(1)), so only successful loads continue.
load_manpage(f) == n_alloc + 1

\* change_dir, called when ok says whether chdir succeeded: a failure prints a
\* warning and leaves the working directory
change_dir(path, ok) ==
    /\ cwd' = IF ok THEN path ELSE cwd
    /\ last_chdir' = IF ok THEN "changed" ELSE "failed"

\* open_new_page changing to the directory of the page being opened
open_new_page_dir_of_new_page(new_page, pwd) ==
    /\ IF pwd # ""
       THEN \E ok \in BOOLEAN : change_dir(pwd, ok)
       ELSE /\ cwd' = cwd
            /\ last_chdir' = "skipped"
    /\ doc_pwd' = doc_pwd @@ (new_page :> pwd)
    /\ doc_fields' = doc_fields @@ (new_page :> ZeroFields)

\* open_new_page: if (page && strlen(page->pwd)) change_dir(page->pwd), and
\* load_manpage's strcpy(page->pwd, pwd ? pwd : "") for the new document
open_new_page_dir(new_page, pwd) ==
    /\ IF page # NULL /\ doc_pwd[page] # ""
       THEN \E ok \in BOOLEAN : change_dir(doc_pwd[page], ok)
       ELSE /\ cwd' = cwd
            /\ last_chdir' = "skipped"
    /\ doc_pwd' = doc_pwd @@ (new_page :> pwd)
    /\ doc_fields' = doc_fields @@ (new_page :> ZeroFields)

\* open_new_page without the loop that destroys the pages ahead
open_new_page_keeps_ahead(filename, pwd) ==
    /\ n_alloc < MaxOpens
    /\ LET new_page == load_manpage(filename) IN
        /\ n_alloc' = new_page
        /\ open_new_page_dir(new_page, pwd)
        /\ doc_file' = doc_file @@ (new_page :> filename)
        /\ freed' = freed
        /\ IF stack_pos < sb_count(page_stack)
           THEN page_stack' = [page_stack EXCEPT ![stack_pos + 1] = new_page]
           ELSE page_stack' = Append(page_stack, new_page)
        /\ stack_pos' = stack_pos + 1
        /\ page' = new_page
        /\ display_mode' = IF display_mode = D_SEARCH THEN D_MANPAGE ELSE display_mode
    /\ hist' = Record("open", filename)
    /\ post_redisplay
    /\ UNCHANGED launcher_vars
    /\ UNCHANGED doc_vars
    /\ UNCHANGED <<load_vars, manpath_vars>>

\* open_new_page, reached from a link release in the man-page view and from
\* Enter or a click in the launcher.
open_new_page(filename, pwd) ==
    /\ n_alloc < MaxOpens
    /\ LET new_page == load_manpage(filename) IN
        /\ n_alloc' = new_page
        /\ open_new_page_dir(new_page, pwd)
        /\ doc_file' = doc_file @@ (new_page :> filename)
        /\ IF stack_pos < sb_count(page_stack)
           THEN /\ freed' = freed \cup
                        {page_stack[i] : i \in {j \in (stack_pos + 1)..sb_count(page_stack) :
                                                    page_stack[j] # NULL}}
                /\ page_stack' = [i \in 1..sb_count(page_stack) |->
                                    IF i = stack_pos + 1 THEN new_page
                                    ELSE IF i > stack_pos THEN NULL
                                    ELSE page_stack[i]]
                /\ stack_pos' = stack_pos + 1
           ELSE /\ freed' = freed
                /\ page_stack' = Append(page_stack, new_page)
                /\ stack_pos' = stack_pos + 1
        /\ page' = new_page
        /\ display_mode' = IF display_mode = D_SEARCH THEN D_MANPAGE ELSE display_mode
    /\ hist' = Record("open", filename)
    /\ post_redisplay
    /\ UNCHANGED launcher_vars
    /\ UNCHANGED doc_vars
    /\ UNCHANGED <<load_vars, manpath_vars>>

\* page_back that shows the launcher without resetting stack_pos
page_back_keeps_position ==
    /\ display_mode = D_MANPAGE
    /\ IF stack_pos > 1
       THEN /\ stack_pos' = stack_pos - 1
            /\ page' = page_stack[stack_pos - 1]
            /\ display_mode' = display_mode
       ELSE /\ display_mode' = D_SEARCH
            /\ stack_pos' = stack_pos
            /\ page' = page
    /\ post_redisplay
    /\ hist' = Record("back", "")
    /\ UNCHANGED <<page_stack, n_alloc, doc_file, freed>>
    /\ UNCHANGED launcher_vars
    /\ UNCHANGED doc_vars
    /\ UNCHANGED <<dir_vars, load_vars, manpath_vars, mouse_vars>>

\* page_back that moves the position but keeps the displayed page
page_back_stale_page ==
    /\ display_mode = D_MANPAGE
    /\ IF stack_pos > 1
       THEN /\ stack_pos' = stack_pos - 1
            /\ page' = page
            /\ display_mode' = display_mode
       ELSE /\ display_mode' = D_SEARCH
            /\ stack_pos' = 0
            /\ page' = page
    /\ post_redisplay
    /\ hist' = Record("back", "")
    /\ UNCHANGED <<page_stack, n_alloc, doc_file, freed>>
    /\ UNCHANGED launcher_vars
    /\ UNCHANGED doc_vars
    /\ UNCHANGED <<dir_vars, load_vars, manpath_vars, mouse_vars>>

\* page_back, reached from 'b', Backspace, Escape and the right mouse button,
\* all of them in the man-page view only.
page_back ==
    /\ display_mode = D_MANPAGE
    /\ IF stack_pos > 1
       THEN /\ stack_pos' = stack_pos - 1
            /\ page' = page_stack[stack_pos - 1]
            /\ display_mode' = display_mode
            /\ post_redisplay
       ELSE IF display_mode = D_MANPAGE
       THEN /\ display_mode' = D_SEARCH
            /\ stack_pos' = 0
            /\ page' = page
            /\ post_redisplay
       ELSE UNCHANGED <<stack_pos, page, display_mode, redisplay_needed>>
    /\ hist' = Record("back", "")
    /\ UNCHANGED <<page_stack, n_alloc, doc_file, freed>>
    /\ UNCHANGED launcher_vars
    /\ UNCHANGED doc_vars
    /\ UNCHANGED <<dir_vars, load_vars, manpath_vars, mouse_vars>>

\* page_forward with <= for < and without the test of the slot
page_forward_unchecked ==
    /\ display_mode = D_MANPAGE
    /\ IF stack_pos <= sb_count(page_stack)
       THEN /\ stack_pos' = stack_pos + 1
            /\ page' = IF stack_pos < sb_count(page_stack) THEN page_stack[stack_pos + 1] ELSE NULL
            /\ post_redisplay
       ELSE UNCHANGED <<stack_pos, page, redisplay_needed>>
    /\ hist' = Record("forward", "")
    /\ UNCHANGED <<page_stack, display_mode, n_alloc, doc_file, freed>>
    /\ UNCHANGED launcher_vars
    /\ UNCHANGED doc_vars
    /\ UNCHANGED <<dir_vars, load_vars, manpath_vars, mouse_vars>>

\* page_forward that shows the page from its top
page_forward_rewinds ==
    /\ display_mode = D_MANPAGE
    /\ IF stack_pos < sb_count(page_stack) /\ page_stack[stack_pos + 1] # NULL
       THEN /\ stack_pos' = stack_pos + 1
            /\ page' = page_stack[stack_pos + 1]
            /\ doc_fields' = [doc_fields EXCEPT ![page'].scroll_position = 0]
            /\ post_redisplay
       ELSE UNCHANGED <<stack_pos, page, redisplay_needed, doc_fields>>
    /\ hist' = Record("forward", "")
    /\ UNCHANGED <<page_stack, display_mode, n_alloc, doc_file, freed>>
    /\ UNCHANGED launcher_vars
    /\ UNCHANGED doc_vars
    /\ UNCHANGED <<cwd, doc_pwd, last_chdir, load_vars, manpath_vars, mouse_vars>>

\* page_forward, reached from 'f' in the man-page view.
page_forward ==
    /\ display_mode = D_MANPAGE
    /\ IF stack_pos < sb_count(page_stack) /\ page_stack[stack_pos + 1] # NULL
       THEN /\ stack_pos' = stack_pos + 1
            /\ page' = page_stack[stack_pos + 1]
            /\ post_redisplay
       ELSE UNCHANGED <<stack_pos, page, redisplay_needed>>
    /\ hist' = Record("forward", "")
    /\ UNCHANGED <<page_stack, display_mode, n_alloc, doc_file, freed>>
    /\ UNCHANGED launcher_vars
    /\ UNCHANGED doc_vars
    /\ UNCHANGED <<dir_vars, load_vars, manpath_vars, mouse_vars>>

\* key_func, Ctrl-F in the man-page view: show the launcher, keep the stack.
key_ctrl_f ==
    /\ display_mode = D_MANPAGE
    /\ display_mode' = D_SEARCH
    /\ hist' = Record("launcher", "")
    /\ post_redisplay
    /\ UNCHANGED <<page_stack, stack_pos, page, n_alloc, doc_file, freed>>
    /\ UNCHANGED launcher_vars
    /\ UNCHANGED doc_vars
    /\ UNCHANGED <<dir_vars, load_vars, manpath_vars, mouse_vars>>

\* set_scroll_position on the displayed page of a document one scroll step
\* taller than the window: the clamped position is stored and a render is
\* asked for when it differs
set_page_scroll_position(new_scroll_position) ==
    LET clamped == IF new_scroll_position < 0 THEN 0
                   ELSE IF new_scroll_position > DIM_SCROLL_AMOUNT THEN DIM_SCROLL_AMOUNT
                   ELSE new_scroll_position
    IN  /\ doc_fields' = [doc_fields EXCEPT ![page].scroll_position = clamped]
        /\ IF clamped # doc_fields[page].scroll_position
           THEN post_redisplay
           ELSE UNCHANGED redisplay_needed

\* key_func, Up and Down in the man-page view of a document one scroll step
\* taller than the window: set_scroll_position on the displayed page.  The
\* navigation events remembered start again after an event on the document.
key_scroll_page(direction) ==
    /\ display_mode = D_MANPAGE
    /\ set_page_scroll_position(doc_fields[page].scroll_position
                                    + direction * DIM_SCROLL_AMOUNT)
    /\ hist' = << >>
    /\ UNCHANGED <<page_stack, stack_pos, page, display_mode, n_alloc, doc_file, freed>>
    /\ UNCHANGED <<cwd, doc_pwd, last_chdir, load_vars, manpath_vars, mouse_vars>>
    /\ UNCHANGED launcher_vars
    /\ UNCHANGED doc_vars

\* char_func '/' shows the search of the displayed page, key_func Enter
\* outside the input clears it
key_search_page(visible) ==
    /\ display_mode = D_MANPAGE
    /\ doc_fields' = [doc_fields EXCEPT ![page].search_visible = visible]
    /\ hist' = << >>
    /\ post_redisplay
    /\ UNCHANGED <<page_stack, stack_pos, page, display_mode, n_alloc, doc_file, freed>>
    /\ UNCHANGED <<cwd, doc_pwd, last_chdir, load_vars, manpath_vars, mouse_vars>>
    /\ UNCHANGED launcher_vars
    /\ UNCHANGED doc_vars

\* ------------------------------------------------------- launcher search
Min(S) == CHOOSE x \in S : \A y \in S : x <= y

\* strings over a character set with lengths lo..hi
Strings(chars, lo, hi) == UNION {[1..n -> chars] : n \in lo..hi}

\* tolower in the C locale
tolower(c) == IF c >= 65 /\ c <= 90 THEN c + 32 ELSE c

\* isupper in the C locale
isupper(c) == c >= 65 /\ c <= 90

\* make_manpage_database: the lowercased copy of a key
Lowercase(str) == [i \in 1..Len(str) |-> tolower(str[i])]

\* make_manpage_database: snprintf(key, "%s(%s)", page_name, section_name)
MakeKey(page_name, section_name) == page_name \o <<40>> \o section_name \o <<41>>

\* the keys make_manpage_database can build from globbed file names (glob "*"
\* skips names starting with '.', so page names are not empty)
Keys == {MakeKey(n, sec) : n \in Strings(NameChars, 1, MaxNameLen), sec \in Sections}

\* strcmp(a, b) <= 0
StrcmpLE(a, b) ==
    LET n == IF Len(a) < Len(b) THEN Len(a) ELSE Len(b)
        diffs == {i \in 1..n : a[i] # b[i]}
    IN  IF diffs = {} THEN Len(a) <= Len(b) ELSE a[Min(diffs)] < b[Min(diffs)]

\* cmp_manpage_name_idx and the qsort of make_manpage_database: the name list
\* is ordered by the lowercased keys; a key discovered twice is listed twice
\* and keys with equal lowercased names come in any order
SortedByLowercase(names) ==
    \A i \in 1..(Len(names) - 1) : StrcmpLE(Lowercase(names[i]), Lowercase(names[i + 1]))

CatalogSize == MaxMatches + ExtraEntries

Catalogs == {c \in Strings(Keys, 0, CatalogSize) : SortedByLowercase(c)}

\* find_string: the first index at which search_term occurs in text, or -1
find_string(term, text) ==
    LET search_len == Len(term)
        text_len == Len(text)
        hits == {i \in 0..(text_len - search_len - 1) :
                    \A j \in 0..(search_len - 1) : term[j + 1] = text[i + j + 1]}
    IN  IF hits = {} THEN -1 ELSE Min(hits)

\* compar_match_rev
compar_match_rev(a, b) == b.goodness - a.goodness

\* binary_search_first: the while loop
RECURSIVE binary_search_loop(_, _, _, _)
binary_search_loop(key, data, start, end) ==
    IF end > start + 1
    THEN LET mid == (end + start) \div 2
             c == compar_match_rev(key, data[mid + 1])
         IN  IF c <= 0
             THEN binary_search_loop(key, data, start, mid)
             ELSE binary_search_loop(key, data, mid, end)
    ELSE end

\* binary_search_first without the early return for a key below the last element
binary_search_first_no_end_check(key, data, nmemb) ==
    IF nmemb <= 0 THEN 0
    ELSE LET c_start == compar_match_rev(key, data[1])
         IN  IF c_start <= 0 THEN 0
             ELSE binary_search_loop(key, data, 0, nmemb - 1)

\* binary_search_first
binary_search_first(key, data, nmemb) ==
    IF nmemb <= 0 THEN 0
    ELSE LET c_start == compar_match_rev(key, data[1])
             c_end == compar_match_rev(key, data[nmemb])
         IN  IF c_start <= 0 THEN 0
             ELSE IF c_end > 0 THEN nmemb
             ELSE binary_search_loop(key, data, 0, nmemb - 1)

\* insert_array
insert_array(key, index, data, nmemb) ==
    IF index < 0 \/ index >= nmemb THEN data
    ELSE [k \in 1..nmemb |->
            IF k - 1 < index THEN data[k]
            ELSE IF k - 1 = index THEN key
            ELSE data[k - 1]]

\* update_search: which of the two name lists the query is compared with
manpage_names_chosen ==
    IF \E k \in 1..Len(search_term) : isupper(search_term[k])
    THEN manpage_names ELSE manpage_names_lower

\* update_search: the factor of the match position in the goodness
PositionWeight == 100

\* update_search: the goodness of entry i (from 0) for a match at position
goodness_of(i, position) ==
    (0 - position) * PositionWeight
        - (Len(manpage_names_chosen[i + 1]) - Len(search_term))

\* update_search leaving the selection and the view offset as they are
update_search_begin_keeps_selection(term) ==
    /\ search_term' = term
    /\ matches' = [k \in 1..MaxMatches |-> [idx |-> 0, goodness |-> 0]]
    /\ matches_count' = 0
    /\ UNCHANGED <<results_view_offset, results_selected_index>>
    /\ scan_i' = IF Len(term) = 0 THEN Len(manpage_names) ELSE 0
    /\ selection_before' = [selected_index |-> results_selected_index,
                            view_offset |-> results_view_offset]

\* update_search up to the loop: the results are cleared, selection and scroll
\* offset reset; an empty query returns at once
update_search_begin(term) ==
    /\ search_term' = term
    /\ matches' = [k \in 1..MaxMatches |-> [idx |-> 0, goodness |-> 0]]
    /\ matches_count' = 0
    /\ results_view_offset' = 0
    /\ results_selected_index' = 0
    /\ scan_i' = IF Len(term) = 0 THEN Len(manpage_names) ELSE 0
    /\ selection_before' = [selected_index |-> results_selected_index,
                            view_offset |-> results_view_offset]

\* the launcher handles an event only when no recompute is running
launcher_idle ==
    /\ display_mode = D_SEARCH
    /\ scan_i = Len(manpage_names)

\* the loop iteration counting every insert, also into a full array
update_search_step_counts_every_insert ==
    /\ display_mode = D_SEARCH
    /\ scan_i < Len(manpage_names)
    /\ LET position == find_string(search_term, manpage_names_chosen[scan_i + 1])
           key == [idx |-> scan_i, goodness |-> goodness_of(scan_i, position)]
           index == binary_search_first(key, matches, matches_count)
       IN  IF position >= 0 /\ index < MaxMatches
           THEN /\ matches' = insert_array(key, index, matches, MaxMatches)
                /\ matches_count' = matches_count + 1
           ELSE UNCHANGED <<matches, matches_count>>
    /\ scan_i' = scan_i + 1
    /\ UNCHANGED <<search_term, results_view_offset, results_selected_index,
                   manpage_names, manpage_names_lower, selection_before, redisplay_needed>>
    /\ UNCHANGED nav_vars
    /\ UNCHANGED <<dir_vars, load_vars, manpath_vars, mouse_vars>>
    /\ UNCHANGED doc_vars

\* update_search: one iteration of the loop over the catalog
update_search_step ==
    /\ display_mode = D_SEARCH
    /\ scan_i < Len(manpage_names)
    /\ LET position == find_string(search_term, manpage_names_chosen[scan_i + 1])
           key == [idx |-> scan_i, goodness |-> goodness_of(scan_i, position)]
           index == binary_search_first(key, matches, matches_count)
       IN  IF position >= 0 /\ index < MaxMatches
           THEN /\ matches' = insert_array(key, index, matches, MaxMatches)
                /\ matches_count' = IF matches_count < MaxMatches
                                    THEN matches_count + 1 ELSE matches_count
           ELSE UNCHANGED <<matches, matches_count>>
    /\ scan_i' = scan_i + 1
    /\ UNCHANGED <<search_term, results_view_offset, results_selected_index,
                   manpage_names, manpage_names_lower, selection_before, redisplay_needed>>
    /\ UNCHANGED nav_vars
    /\ UNCHANGED <<dir_vars, load_vars, manpath_vars, mouse_vars>>
    /\ UNCHANGED doc_vars

\* sizeof(search_term) as modelled: 512 bytes in the source, scaled down to
\* the longest launcher query typed
SearchTermSize == MaxQueryLen

\* ARRAY_SIZE(page->search_string) as modelled: 256 bytes in the source,
\* scaled down so that char_func's test strlen <= ARRAY_SIZE - 2 is the
\* test Len(search_string) < MaxPageQueryLen
SearchStringSize == MaxPageQueryLen + 1

\* char_func in the launcher: the character is appended with strcat, whatever
\* the length of search_term, and the search redone
char_func_launcher(codepoint) ==
    /\ launcher_idle
    /\ codepoint < 128
    /\ Len(search_term) < MaxQueryLen
    /\ update_search_begin(Append(search_term, codepoint))
    /\ post_redisplay
    /\ UNCHANGED <<manpage_names, manpage_names_lower>>
    /\ UNCHANGED nav_vars
    /\ UNCHANGED <<dir_vars, load_vars, manpath_vars, mouse_vars>>
    /\ UNCHANGED doc_vars

\* key_func in the launcher, Backspace
key_backspace_launcher ==
    /\ launcher_idle
    /\ Len(search_term) > 0
    /\ update_search_begin(SubSeq(search_term, 1, Len(search_term) - 1))
    /\ post_redisplay
    /\ UNCHANGED <<manpage_names, manpage_names_lower>>
    /\ UNCHANGED nav_vars
    /\ UNCHANGED <<dir_vars, load_vars, manpath_vars, mouse_vars>>
    /\ UNCHANGED doc_vars

\* key_func in the launcher, Escape
key_escape_launcher ==
    /\ launcher_idle
    /\ Len(search_term) > 0
    /\ update_search_begin(<< >>)
    /\ post_redisplay
    /\ UNCHANGED <<manpage_names, manpage_names_lower>>
    /\ UNCHANGED nav_vars
    /\ UNCHANGED <<dir_vars, load_vars, manpath_vars, mouse_vars>>
    /\ UNCHANGED doc_vars

\* int results_shown_lines
results_shown_lines == N_SHOWN_RESULTS

\* results_hittest: the row of the result box under the pointer, or -1
results_hittest_values == -1..(results_shown_lines - 1)

\* key_func in the launcher, Up
key_up_launcher ==
    /\ launcher_idle
    /\ IF results_selected_index > 0
       THEN /\ results_selected_index' = results_selected_index - 1
            /\ results_view_offset' =
                  IF results_selected_index - 1 < results_view_offset
                  THEN results_selected_index - 1 ELSE results_view_offset
            /\ post_redisplay
       ELSE UNCHANGED <<results_selected_index, results_view_offset, redisplay_needed>>
    /\ UNCHANGED <<manpage_names, manpage_names_lower, search_term, matches, matches_count,
                   scan_i, selection_before>>
    /\ UNCHANGED nav_vars
    /\ UNCHANGED <<dir_vars, load_vars, manpath_vars, mouse_vars>>
    /\ UNCHANGED doc_vars

\* key_func in the launcher, Down, the view left where it is
key_down_launcher_keeps_view ==
    /\ launcher_idle
    /\ IF results_selected_index < matches_count - 1
       THEN /\ results_selected_index' = results_selected_index + 1
            /\ results_view_offset' = results_view_offset
            /\ post_redisplay
       ELSE UNCHANGED <<results_selected_index, results_view_offset, redisplay_needed>>
    /\ UNCHANGED <<manpage_names, manpage_names_lower, search_term, matches, matches_count,
                   scan_i, selection_before>>
    /\ UNCHANGED nav_vars
    /\ UNCHANGED <<dir_vars, load_vars, manpath_vars, mouse_vars>>
    /\ UNCHANGED doc_vars

\* key_func in the launcher, Down
key_down_launcher ==
    /\ launcher_idle
    /\ IF results_selected_index < matches_count - 1
       THEN /\ results_selected_index' = results_selected_index + 1
            /\ results_view_offset' =
                  IF results_selected_index + 1 > results_view_offset + results_shown_lines - 1
                  THEN results_selected_index + 1 - results_shown_lines + 1
                  ELSE results_view_offset
            /\ post_redisplay
       ELSE UNCHANGED <<results_selected_index, results_view_offset, redisplay_needed>>
    /\ UNCHANGED <<manpage_names, manpage_names_lower, search_term, matches, matches_count,
                   scan_i, selection_before>>
    /\ UNCHANGED nav_vars
    /\ UNCHANGED <<dir_vars, load_vars, manpath_vars, mouse_vars>>
    /\ UNCHANGED doc_vars

\* mouse_scroll_func in the launcher: yoffset > 0 (dir = -1) and yoffset < 0
\* (dir = 1) with the pointer over row index of the result box
mouse_scroll_func_launcher(dir, index) ==
    /\ launcher_idle
    /\ IF /\ index >= 0
          /\ \/ dir = -1 /\ results_view_offset > 0
             \/ dir = 1 /\ results_view_offset < matches_count - results_shown_lines
       THEN LET actual_index == index + results_view_offset + dir IN
            /\ results_view_offset' = results_view_offset + dir
            /\ results_selected_index' =
                  IF actual_index < matches_count THEN actual_index
                  ELSE results_selected_index
            /\ post_redisplay
       ELSE UNCHANGED <<results_selected_index, results_view_offset, redisplay_needed>>
    /\ UNCHANGED <<manpage_names, manpage_names_lower, search_term, matches, matches_count,
                   scan_i, selection_before>>
    /\ UNCHANGED nav_vars
    /\ UNCHANGED <<dir_vars, load_vars, manpath_vars, mouse_vars>>
    /\ UNCHANGED doc_vars

\* mouse_pos_func in the launcher: the row under the pointer is selected
mouse_pos_func_launcher(index) ==
    /\ launcher_idle
    /\ LET actual_index == index + results_view_offset IN
       IF index >= 0 /\ actual_index < matches_count /\ results_selected_index # actual_index
       THEN /\ results_selected_index' = actual_index
            /\ post_redisplay
       ELSE UNCHANGED <<results_selected_index, redisplay_needed>>
    /\ UNCHANGED <<manpage_names, manpage_names_lower, search_term, matches, matches_count,
                   results_view_offset, scan_i, selection_before>>
    /\ UNCHANGED nav_vars
    /\ UNCHANGED <<dir_vars, load_vars, manpath_vars, mouse_vars>>
    /\ UNCHANGED doc_vars

\* the catalogs of the launcher whose result box is scrolled: keys of
\* one-letter names
ResultCatalogs ==
    {c \in Strings({MakeKey(<<n>>, sec) : n \in NameChars, sec \in Sections}, 0, CatalogSize) :
        SortedByLowercase(c)}

\* make_manpage_database: the path of the file a key was built from, the
\* directory of paths[] it was globbed under and the key it parses to
PathOf(dir, key) == <<dir, key>>

\* the entry make_manpage_database stores for a file globbed under dir
EntryOf(dir, key) == [key |-> key, file |-> PathOf(dir, key), pwd |-> dir]

\* the lookup tables and the scan history that belong to a sorted name list
\* whose pages all lie under /usr/share/man
DatabaseOver(names) ==
    /\ manpage_database = [k \in {names[i] : i \in 1..Len(names)} |->
                                PathOf("/usr/share/man", k)]
    /\ manpage_database_pwd = [k \in {names[i] : i \in 1..Len(names)} |-> "/usr/share/man"]
    /\ discovered = [i \in 1..Len(names) |-> EntryOf("/usr/share/man", names[i])]
    /\ database_pc = "done"

\* load_manpage is not running: no page is being formatted or scanned
LoadIdle == [pc |-> "done", i |-> 0, line |-> << >>, str |-> 0, word_pos |-> 0,
             opening_paren |-> 0, current_word |-> << >>, letters_dropped |-> 0,
             buffer_size |-> 0, span_events |-> 0]

NoLoad ==
    /\ formatting_page = NULL
    /\ load_state = LoadIdle
    /\ links = << >>

\* mouse_button_func: the statics before the first button event
ZeroLink == [document_rectangle |-> [x |-> 0, y |-> 0, x2 |-> 0, y2 |-> 0],
             link |-> "", pwd |-> "", highlight |-> 0]

NoMouse ==
    /\ clicked_in_link = 0
    /\ link = ZeroLink
    /\ scrollbar_dragging = 0

\* get_man_paths_from_manpath_executable has not been called
NoManpath ==
    /\ manpath_paths = << >>
    /\ number_of_manpath_paths = 0
    /\ manpath_buffer = << >>
    /\ manpath_calls = << >>

\* the launcher state before make_manpage_database has found any page
NoCatalog ==
    /\ DatabaseOver(<< >>)
    /\ manpage_names = << >>
    /\ manpage_names_lower = << >>
    /\ search_term = << >>
    /\ matches = [k \in 1..MaxMatches |-> [idx |-> 0, goodness |-> 0]]
    /\ matches_count = 0
    /\ results_selected_index = 0
    /\ results_view_offset = 0
    /\ scan_i = 0
    /\ selection_before = [selected_index |-> 0, view_offset |-> 0]


\* ----------------------------------------------------- page-local search
ZeroRect == [x |-> 0, y |-> 0, x2 |-> 0, y2 |-> 0]

\* get_line_advance with the built-in font and line_spacing 1.0
get_line_advance == 1 * FONT_CHAR_HEIGHT

\* get_line_height with the built-in font
get_line_height == FONT_CHAR_HEIGHT

\* get_character_width
get_character_width == FONT_CHAR_WIDTH

RECURSIVE SumLen(_)
SumLen(d) == IF Len(d) = 0 THEN 0 ELSE Len(d[1]) + SumLen(Tail(d))

\* the documents load_manpage can produce: at least one line (add_line), and
\* no empty last line when there is more than one
Documents ==
    {d \in Strings(Strings(PageChars, 0, MaxLineLen), 1, MaxLines) :
        /\ SumLen(d) <= MaxDocBytes
        /\ (Len(d) > 1 => Len(d[Len(d)]) > 0)}

\* the launcher view before any page is loaded
NoDocument ==
    /\ lines = << >>
    /\ window_height = 560
    /\ scroll_position = 0
    /\ search_start_scroll_position = 0
    /\ search_input_active = 0
    /\ search_string = << >>
    /\ search_visible = 0
    /\ searches = [k \in 1..MaxSearches |-> ZeroRect]
    /\ search_num = 0
    /\ search_index = 0

\* update_page_search: the copy loop that flattens a span into line[], a
\* backspace stepping back over the character written before it
RECURSIVE flatten_span(_, _, _)
flatten_span(in, k, out) ==
    IF k > Len(in) \/ Len(out) >= LineBufferSize - 1 THEN out
    ELSE IF in[k] = 8
         THEN flatten_span(in, k + 1, IF Len(out) > 0 THEN SubSeq(out, 1, Len(out) - 1) ELSE out)
         ELSE flatten_span(in, k + 1, Append(out, in[k]))

\* contains_uppercase
contains_uppercase(str) == \E k \in 1..Len(str) : str[k] >= 65 /\ str[k] <= 90

\* strncmp(str, query, strlen(query)) == 0 at offset off of the flattened line
strncmp_eq(line, off, query) ==
    /\ off + Len(query) <= Len(line)
    /\ \A j \in 1..Len(query) : line[off + j] = query[j]

\* strncasecmp(str, query, strlen(query)) == 0 at offset off
strncasecmp_eq(line, off, query) ==
    /\ off + Len(query) <= Len(line)
    /\ \A j \in 1..Len(query) : tolower(line[off + j]) = tolower(query[j])

\* the test of the scan position without the ignore_case flag
page_match_at_any_case(line, off, query) ==
    \/ strncasecmp_eq(line, off, query)
    \/ strncmp_eq(line, off, query)

\* update_page_search: the test of the scan position
page_match_at(line, off, query) ==
    \/ (~contains_uppercase(query) /\ strncasecmp_eq(line, off, query))
    \/ strncmp_eq(line, off, query)

\* the scan resuming one character after the start of a match
next_scan_offset_by_one(off, query) == off + 1

\* update_page_search: str += strlen(p->search_string) after a match
next_scan_offset(off, query) == off + Len(query)

\* the test of a match against the search start without the document margin
at_or_below_start_no_margin(y, start_pos) == y >= start_pos

\* update_page_search: the top edge of a match, in document coordinates, is at
\* or below page->search_start_scroll_position
at_or_below_start(y, start_pos) == (y + DIM_DOCUMENT_MARGIN) >= start_pos

\* update_page_search: the scan from offset off of line i (both from 0); st
\* holds searches, search_num, search_index and search_index_set
RECURSIVE page_scan(_, _, _, _, _, _)
page_scan(doc, query, start_pos, i, off, st) ==
    IF i >= Len(doc) THEN st
    ELSE LET line == flatten_span(doc[i + 1], 1, << >>) IN
         IF off >= Len(line) THEN page_scan(doc, query, start_pos, i + 1, 0, st)
         ELSE IF page_match_at(line, off, query)
         THEN LET x == off * get_character_width
                  y == i * get_line_advance
                  r == [x |-> x, y |-> y,
                        x2 |-> x + Len(query) * get_character_width,
                        y2 |-> y + get_line_height]
                  below == at_or_below_start(y, start_pos)
                  st2 == [searches |-> [st.searches EXCEPT ![st.search_num + 1] = r],
                          search_num |-> st.search_num + 1,
                          search_index |-> IF below /\ st.search_index_set = 0
                                           THEN st.search_num ELSE st.search_index,
                          search_index_set |-> IF below THEN 1 ELSE st.search_index_set]
              IN  IF st2.search_num >= MaxSearches
                  THEN [st2 EXCEPT !.search_index =
                            IF st2.search_index_set = 0 THEN 0 ELSE st2.search_index]
                  ELSE page_scan(doc, query, start_pos, i, next_scan_offset(off, query), st2)
         ELSE page_scan(doc, query, start_pos, i, off + 1, st)

\* update_page_search
update_page_search(doc, query, start_pos, old_searches) ==
    LET st0 == [searches |-> old_searches, search_num |-> 0, search_index |-> 0,
                search_index_set |-> 0]
    IN  IF Len(query) = 0 THEN st0 ELSE page_scan(doc, query, start_pos, 0, 0, st0)

\* document_height of a page of n_lines lines
document_height_of(n_lines) == n_lines * get_line_advance + 2 * DIM_DOCUMENT_MARGIN

\* document_height
document_height == document_height_of(Len(lines))

\* clamp
clamp(val, min, max) == IF val > max THEN max ELSE IF val < min THEN min ELSE val

\* clamp_scroll_position for a document height and a window height
clamp_scroll_position_in(new_scroll_position, doc_height, height) ==
    clamp(new_scroll_position, 0, IF doc_height - height > 0 THEN doc_height - height ELSE 0)

\* clamp_scroll_position
clamp_scroll_position(new_scroll_position) ==
    clamp_scroll_position_in(new_scroll_position, document_height, window_height)

\* to_document_coordinates
to_document_coordinates(r) ==
    [x |-> r.x + DIM_DOCUMENT_MARGIN, y |-> r.y + DIM_DOCUMENT_MARGIN,
     x2 |-> r.x2 + DIM_DOCUMENT_MARGIN, y2 |-> r.y2 + DIM_DOCUMENT_MARGIN]

\* scroll_in_view without the margin of three lines
scroll_in_view_no_margin(r, prefered_scroll_position) ==
    IF r.y < prefered_scroll_position
    THEN clamp_scroll_position(r.y)
    ELSE IF r.y2 > prefered_scroll_position + window_height
    THEN clamp_scroll_position(r.y2 - window_height)
    ELSE prefered_scroll_position

\* scroll_in_view: the new page->scroll_position
scroll_in_view(r, prefered_scroll_position) ==
    LET scroll_offset == 3 * get_line_advance IN
    IF r.y - scroll_offset < prefered_scroll_position
    THEN clamp_scroll_position(r.y - scroll_offset)
    ELSE IF r.y2 + scroll_offset > prefered_scroll_position + window_height
    THEN clamp_scroll_position(r.y2 - window_height + scroll_offset)
    ELSE prefered_scroll_position

\* the man-page view handles an event
page_view == display_mode = D_MANPAGE /\ page # NULL

\* char_func and key_func while the query is edited: the search is redone and
\* the current match scrolled into view
edit_search_string(query) ==
    LET res == update_page_search(lines, query, search_start_scroll_position, searches) IN
    /\ search_string' = query
    /\ searches' = res.searches
    /\ search_num' = res.search_num
    /\ search_index' = res.search_index
    /\ scroll_position' =
            IF res.search_num > 0
            THEN scroll_in_view(to_document_coordinates(res.searches[res.search_index + 1]),
                                search_start_scroll_position)
            ELSE scroll_position
    /\ UNCHANGED <<lines, window_height, search_start_scroll_position, search_input_active,
                   search_visible>>

\* char_func, '/': start the input of a query
char_func_slash ==
    /\ page_view
    /\ search_input_active = 0
    /\ search_string' = << >>
    /\ search_num' = 0
    /\ search_index' = 0
    /\ search_start_scroll_position' = scroll_position
    /\ search_visible' = 1
    /\ search_input_active' = 1
    /\ UNCHANGED <<lines, window_height, scroll_position, searches>>
    /\ post_redisplay
    /\ UNCHANGED nav_vars
    /\ UNCHANGED <<dir_vars, load_vars, manpath_vars, mouse_vars>>
    /\ UNCHANGED launcher_vars

\* char_func while the query is edited: a typed character
char_func_search_input(codepoint) ==
    /\ page_view
    /\ search_input_active # 0
    /\ codepoint < 128
    /\ Len(search_string) < MaxPageQueryLen
    /\ edit_search_string(Append(search_string, codepoint))
    /\ post_redisplay
    /\ UNCHANGED nav_vars
    /\ UNCHANGED <<dir_vars, load_vars, manpath_vars, mouse_vars>>
    /\ UNCHANGED launcher_vars

\* key_func while the query is edited: Backspace
key_backspace_search_input ==
    /\ page_view
    /\ search_input_active # 0
    /\ Len(search_string) > 0
    /\ edit_search_string(SubSeq(search_string, 1, Len(search_string) - 1))
    /\ post_redisplay
    /\ UNCHANGED nav_vars
    /\ UNCHANGED <<dir_vars, load_vars, manpath_vars, mouse_vars>>
    /\ UNCHANGED launcher_vars

\* key_func while the query is edited: Escape, Ctrl-C, Ctrl-D
key_escape_search_input ==
    /\ page_view
    /\ search_input_active # 0
    /\ search_input_active' = 0
    /\ scroll_position' = clamp_scroll_position(search_start_scroll_position)
    /\ UNCHANGED <<lines, window_height, search_start_scroll_position, search_string,
                   search_visible, searches, search_num, search_index>>
    /\ post_redisplay
    /\ UNCHANGED nav_vars
    /\ UNCHANGED <<dir_vars, load_vars, manpath_vars, mouse_vars>>
    /\ UNCHANGED launcher_vars

\* key_func while the query is edited: Enter
key_enter_search_input ==
    /\ page_view
    /\ search_input_active # 0
    /\ search_input_active' = 0
    /\ UNCHANGED <<lines, window_height, scroll_position, search_start_scroll_position,
                   search_string, search_visible, searches, search_num, search_index>>
    /\ post_redisplay
    /\ UNCHANGED nav_vars
    /\ UNCHANGED <<dir_vars, load_vars, manpath_vars, mouse_vars>>
    /\ UNCHANGED launcher_vars

\* key_func, Enter outside the input: clear the search
key_enter_clear_search ==
    /\ page_view
    /\ search_input_active = 0
    /\ search_num' = 0
    /\ search_index' = 0
    /\ search_string' = << >>
    /\ search_visible' = 0
    /\ UNCHANGED <<lines, window_height, scroll_position, search_start_scroll_position,
                   search_input_active, searches>>
    /\ post_redisplay
    /\ UNCHANGED nav_vars
    /\ UNCHANGED <<dir_vars, load_vars, manpath_vars, mouse_vars>>
    /\ UNCHANGED launcher_vars

\* set_scroll_position asking for a render whatever the stored value
set_scroll_position_always_redisplays(new_scroll_position) ==
    /\ scroll_position' = clamp_scroll_position(new_scroll_position)
    /\ post_redisplay

\* set_scroll_position: the clamped value is stored, and a render asked for,
\* only when it differs from the stored one
set_scroll_position(new_scroll_position) ==
    LET clamped == clamp_scroll_position(new_scroll_position) IN
    IF clamped # scroll_position
    THEN /\ scroll_position' = clamped
         /\ post_redisplay
    ELSE UNCHANGED <<scroll_position, redisplay_needed>>

\* char_func, 'k' (-1) and 'j' (+1): set_scroll_position by one scroll amount
char_func_scroll(dir) ==
    /\ page_view
    /\ search_input_active = 0
    /\ set_scroll_position(scroll_position + dir * DIM_SCROLL_AMOUNT)
    /\ UNCHANGED <<lines, window_height, search_start_scroll_position, search_input_active,
                   search_string, search_visible, searches, search_num, search_index>>
    /\ UNCHANGED nav_vars
    /\ UNCHANGED <<dir_vars, load_vars, manpath_vars, mouse_vars>>
    /\ UNCHANGED launcher_vars

\* key_func, Home (0) and End (1000000000); char_func, 'G'
key_func_home_end(target) ==
    /\ page_view
    /\ search_input_active = 0
    /\ set_scroll_position(target)
    /\ UNCHANGED <<lines, window_height, search_start_scroll_position, search_input_active,
                   search_string, search_visible, searches, search_num, search_index>>
    /\ UNCHANGED nav_vars
    /\ UNCHANGED <<dir_vars, load_vars, manpath_vars, mouse_vars>>
    /\ UNCHANGED launcher_vars

\* scroll_page, reached from Page Up and Page Down, Space and Shift-Space
scroll_page(amount) ==
    /\ page_view
    /\ search_input_active = 0
    /\ set_scroll_position(scroll_position + amount * (window_height - get_line_advance))
    /\ UNCHANGED <<lines, window_height, search_start_scroll_position, search_input_active,
                   search_string, search_visible, searches, search_num, search_index>>
    /\ UNCHANGED nav_vars
    /\ UNCHANGED <<dir_vars, load_vars, manpath_vars, mouse_vars>>
    /\ UNCHANGED launcher_vars

\* mouse_scroll_func in the man-page view: yoffset > 0 (-1) and yoffset < 0 (+1),
\* also while a query is edited
mouse_scroll_func_page(dir) ==
    /\ page_view
    /\ set_scroll_position(scroll_position + dir * DIM_SCROLL_AMOUNT)
    /\ UNCHANGED <<lines, window_height, search_start_scroll_position, search_input_active,
                   search_string, search_visible, searches, search_num, search_index>>
    /\ UNCHANGED nav_vars
    /\ UNCHANGED <<dir_vars, load_vars, manpath_vars, mouse_vars>>
    /\ UNCHANGED launcher_vars

\* what page->searches[index] can hold outside the array: the read is undefined
StrayRects == {ZeroRect, [x |-> 0, y |-> 1000, x2 |-> 0, y2 |-> 1000 + FONT_CHAR_HEIGHT]}

\* page->searches[index].document_rectangle, index counted from 0
searches_at(index) ==
    IF index >= 0 /\ index < MaxSearches THEN {searches[index + 1]} ELSE StrayRects

\* char_func, 'n': the index after the increment, without the wrap
next_search_index_no_wrap(index, num) == index + 1

\* char_func, 'n': search_index++, then search_index -= search_num once it
\* has reached search_num
next_search_index(index, num) ==
    IF index + 1 >= num THEN index + 1 - num ELSE index + 1

\* char_func, 'N': search_index--, then search_index += search_num once it
\* is negative
previous_search_index(index, num) ==
    IF index - 1 < 0 THEN index - 1 + num ELSE index - 1

\* find_match scrolling from the saved search start position
find_match_from_search_start(index) ==
    /\ page_view
    /\ search_input_active = 0
    /\ IF search_visible # 0
       THEN /\ index >= -MaxStray
            /\ index < MaxSearches + MaxStray
            /\ search_index' = index
            /\ \E r \in searches_at(index) :
                  scroll_position' =
                      scroll_in_view(to_document_coordinates(r), search_start_scroll_position)
            /\ post_redisplay
       ELSE UNCHANGED <<search_index, scroll_position, redisplay_needed>>
    /\ UNCHANGED <<lines, window_height, search_start_scroll_position, search_input_active,
                   search_string, search_visible, searches, search_num>>
    /\ UNCHANGED nav_vars
    /\ UNCHANGED <<dir_vars, load_vars, manpath_vars, mouse_vars>>
    /\ UNCHANGED launcher_vars

\* char_func, 'n' and 'N': the match at the new index becomes the current one
\* and is scrolled into view from the scroll position of the page
find_match(index) ==
    /\ page_view
    /\ search_input_active = 0
    /\ IF search_visible # 0
       THEN /\ index >= -MaxStray
            /\ index < MaxSearches + MaxStray
            /\ search_index' = index
            /\ \E r \in searches_at(index) :
                  scroll_position' =
                      scroll_in_view(to_document_coordinates(r), scroll_position)
            /\ post_redisplay
       ELSE UNCHANGED <<search_index, scroll_position, redisplay_needed>>
    /\ UNCHANGED <<lines, window_height, search_start_scroll_position, search_input_active,
                   search_string, search_visible, searches, search_num>>
    /\ UNCHANGED nav_vars
    /\ UNCHANGED <<dir_vars, load_vars, manpath_vars, mouse_vars>>
    /\ UNCHANGED launcher_vars

\* char_func, 'n'
char_func_n == find_match(next_search_index(search_index, search_num))

\* char_func, 'N'
char_func_N == find_match(previous_search_index(search_index, search_num))

\* window_size_func: the new height is stored; the scroll position is not touched
window_size_func(h) ==
    /\ window_height' = h
    /\ UNCHANGED <<lines, scroll_position, search_start_scroll_position, search_input_active,
                   search_string, search_visible, searches, search_num, search_index,
                   redisplay_needed>>
    /\ UNCHANGED nav_vars
    /\ UNCHANGED <<dir_vars, load_vars, manpath_vars, mouse_vars>>
    /\ UNCHANGED launcher_vars

\* main: the loop renders when a render is due and clears the flag
render ==
    /\ redisplay_needed
    /\ redisplay_needed' = FALSE
    /\ UNCHANGED nav_vars
    /\ UNCHANGED <<dir_vars, load_vars, manpath_vars, mouse_vars>>
    /\ UNCHANGED launcher_vars
    /\ UNCHANGED doc_vars

\* the documents of the scrolled view: up to MaxViewLines lines, the lines
\* "a" in one block at the top or at the bottom of the page
ViewDocuments ==
    {d \in Strings(ViewLineTexts, 1, MaxViewLines) :
        \/ \A i \in 1..Len(d) : \A j \in i..Len(d) : d[i] = <<98>> => d[j] = <<98>>
        \/ \A i \in 1..Len(d) : \A j \in i..Len(d) : d[i] = <<97>> => d[j] = <<97>>}

\* ------------------------------------------------------- catalog building
\* make_manpage_database: paths[] in the order of the outer loop
ipath_of(dir) == IF dir = "/usr/share/man" THEN 0 ELSE 1

\* make_manpage_database: the body of the loop over globinfo.gl_pathv for a
\* file under dir that get_page_name_and_section parses to key.  The key is
\* removed from both maps when present and put again; the names are pushed in
\* either case.
make_manpage_database_file(dir, key) ==
    /\ database_pc = "glob"
    /\ Len(discovered) < MaxGlobbed
    /\ Len(discovered) > 0 => ipath_of(discovered[Len(discovered)].pwd) <= ipath_of(dir)
    /\ manpage_database' =
          [k \in DOMAIN manpage_database \cup {key} |->
              IF k = key THEN PathOf(dir, key) ELSE manpage_database[k]]
    /\ manpage_database_pwd' =
          [k \in DOMAIN manpage_database_pwd \cup {key} |->
              IF k = key THEN dir ELSE manpage_database_pwd[k]]
    /\ manpage_names' = Append(manpage_names, key)
    /\ manpage_names_lower' = Append(manpage_names_lower, Lowercase(key))
    /\ discovered' = Append(discovered, EntryOf(dir, key))
    /\ UNCHANGED <<database_pc, formatting_page, load_state, links>>
    /\ UNCHANGED <<search_term, matches, matches_count, results_selected_index,
                   results_view_offset, scan_i, selection_before>>
    /\ UNCHANGED <<nav_vars, dir_vars, doc_vars, manpath_vars, mouse_vars, redisplay_needed>>

\* make_manpage_database: after the loops both name arrays are put into the
\* order qsort gives the indices by the lowercased names; names that compare
\* equal come in any order.  When indices or tmp cannot be allocated the
\* arrays stay as they were pushed.
make_manpage_database_sort ==
    /\ database_pc = "glob"
    /\ database_pc' = "done"
    /\ \E indices \in [1..Len(manpage_names) -> 1..Len(manpage_names)] :
          /\ \A i, j \in 1..Len(manpage_names) : i # j => indices[i] # indices[j]
          /\ \/ \A i \in 1..(Len(manpage_names) - 1) :
                   StrcmpLE(manpage_names_lower[indices[i]], manpage_names_lower[indices[i + 1]])
             \/ \A i \in 1..Len(manpage_names) : indices[i] = i
          /\ manpage_names' = [i \in 1..Len(manpage_names) |-> manpage_names[indices[i]]]
          /\ manpage_names_lower' =
                [i \in 1..Len(manpage_names) |-> manpage_names_lower[indices[i]]]
    /\ UNCHANGED <<manpage_database, manpage_database_pwd, discovered, formatting_page,
                   load_state, links>>
    /\ UNCHANGED <<search_term, matches, matches_count, results_selected_index,
                   results_view_offset, scan_i, selection_before>>
    /\ UNCHANGED <<nav_vars, dir_vars, doc_vars, manpath_vars, mouse_vars, redisplay_needed>>

\* ----------------------------------------------------------- manpath paths
\* ':' and a letter of a path
ManpathChars == {58, 97}

\* what fgets can put into buffer: a line of manpath with its newline, or its
\* first bytes when the line is longer than the buffer or has no newline
ManpathOutputs ==
    {body \o tail : body \in Strings(ManpathChars, 0, MaxManpathBytes),
                     tail \in {<<10>>, << >>}} \ {<< >>}

\* allocating_array_for_paths: one more than the ':' found from buffer + 1 on
allocating_array_for_paths(buffer) ==
    1 + Cardinality({i \in 2..Len(buffer) : buffer[i] = 58})

\* split_buffer_into_paths: the strtok_r tokens of buffer for the delimiters
\* ":\n", from position i on, cur being the token under way
RECURSIVE split_buffer_into_paths(_, _, _)
split_buffer_into_paths(buffer, i, cur) ==
    IF i > Len(buffer)
    THEN IF cur = << >> THEN << >> ELSE <<cur>>
    ELSE IF buffer[i] \in {58, 10}
         THEN (IF cur = << >> THEN << >> ELSE <<cur>>)
                  \o split_buffer_into_paths(buffer, i + 1, << >>)
         ELSE split_buffer_into_paths(buffer, i + 1, Append(cur, buffer[i]))

\* the array calloc returned after split_buffer_into_paths has stored the
\* tokens: the entries no token reached are << >> (calloc's null pointers)
paths_array(buffer) ==
    LET tokens == split_buffer_into_paths(buffer, 1, << >>) IN
        [k \in 1..allocating_array_for_paths(buffer) |->
            IF k <= Len(tokens) THEN tokens[k] ELSE << >>]

\* get_man_paths_from_manpath_executable that runs manpath on every call
get_man_paths_from_manpath_executable_uncached(read_ok, output, calloc_ok) ==
    /\ Len(manpath_calls) < MaxManpathCalls
    /\ IF ~read_ok
       THEN /\ manpath_calls' = Append(manpath_calls,
                                       [ran |-> TRUE, ret |-> 0, paths |-> << >>])
            /\ UNCHANGED <<manpath_paths, number_of_manpath_paths, manpath_buffer>>
       ELSE /\ manpath_buffer' = output
            /\ manpath_paths' = IF calloc_ok THEN paths_array(output) ELSE << >>
            /\ number_of_manpath_paths' =
                  IF calloc_ok THEN allocating_array_for_paths(output) ELSE 0
            /\ manpath_calls' = Append(manpath_calls,
                  [ran |-> TRUE, ret |-> number_of_manpath_paths',
                   paths |-> manpath_paths'])
    /\ UNCHANGED <<nav_vars, dir_vars, doc_vars, load_vars, launcher_vars, redisplay_needed, mouse_vars>>

\* get_man_paths_from_manpath_executable: the cached array when manpath_paths
\* is set; otherwise read_stdout_from_manpath (read_ok: fgets returned the
\* line output), allocating_array_for_paths (calloc_ok) and
\* split_buffer_into_paths.  A call in which popen fails hands a null stream
\* to fgets: the process ends there, or fgets returns NULL as for ~read_ok.
get_man_paths_from_manpath_executable(read_ok, output, calloc_ok) ==
    /\ Len(manpath_calls) < MaxManpathCalls
    /\ IF manpath_paths # << >>
       THEN /\ manpath_calls' = Append(manpath_calls,
                  [ran |-> FALSE, ret |-> number_of_manpath_paths,
                   paths |-> manpath_paths])
            /\ UNCHANGED <<manpath_paths, number_of_manpath_paths, manpath_buffer>>
       ELSE IF ~read_ok
       THEN /\ manpath_calls' = Append(manpath_calls,
                                       [ran |-> TRUE, ret |-> 0, paths |-> << >>])
            /\ UNCHANGED <<manpath_paths, number_of_manpath_paths, manpath_buffer>>
       ELSE /\ manpath_buffer' = output
            /\ manpath_paths' = IF calloc_ok THEN paths_array(output) ELSE << >>
            /\ number_of_manpath_paths' =
                  IF calloc_ok THEN allocating_array_for_paths(output) ELSE 0
            /\ manpath_calls' = Append(manpath_calls,
                  [ran |-> TRUE, ret |-> number_of_manpath_paths',
                   paths |-> manpath_paths'])
    /\ UNCHANGED <<nav_vars, dir_vars, doc_vars, load_vars, launcher_vars, redisplay_needed, mouse_vars>>

\* -------------------------------------------------------- text accumulator
\* add_to_span: the switch and the range test that replace a code point
normalize_letter(letter) ==
    IF letter \in {8208, 8211, 8212, 8226, 8722, 9472, 9473} THEN <<45>>
    ELSE IF letter = 8727 THEN <<42>>
    ELSE IF letter \in {9474, 9475} THEN <<124>>
    ELSE IF letter = 8805 THEN <<62, 61>>
    ELSE IF letter = 8804 THEN <<60, 61>>
    ELSE IF letter \in {160, 8194} THEN <<32>>
    ELSE IF letter \in {8220, 8221} THEN <<34>>
    ELSE IF letter \in {8216, 8217} THEN <<39>>
    ELSE IF letter = 10216 THEN <<60>>
    ELSE IF letter = 10217 THEN <<62>>
    ELSE IF letter >= 9484 /\ letter <= 9547 THEN <<43>>
    ELSE <<letter>>

\* add_to_span that stores the low byte of a code point it cannot show
add_to_span_stores_low_byte(buffer, letter) ==
    LET n == normalize_letter(letter) IN
    IF n[1] < 256 THEN buffer \o n ELSE Append(buffer, n[1] % 256)

\* add_to_span: the bytes of the span after the letter; a code point of 256 or
\* more is reported on stderr and not stored
add_to_span(buffer, letter) ==
    LET n == normalize_letter(letter) IN
    IF n[1] < 256 THEN buffer \o n ELSE buffer

\* add_to_span growing the buffer only when the bytes no longer fit at all
span_buffer_size_grows_when_past(buffer_size, length, chars) ==
    IF buffer_size = 0 THEN STARTING_SPAN_SIZE
    ELSE IF length + chars > buffer_size THEN buffer_size * 2
    ELSE buffer_size

\* add_to_span: buffer_size after the allocation that precedes the store of
\* chars bytes in a span of length bytes
span_buffer_size(buffer_size, length, chars) ==
    IF buffer_size = 0 THEN STARTING_SPAN_SIZE
    ELSE IF length + chars >= buffer_size THEN buffer_size * 2
    ELSE buffer_size

\* format_advance: buffer_size after len calls of add_to_span(s, ' ')
RECURSIVE span_buffer_size_advance(_, _, _)
span_buffer_size_advance(buffer_size, length, len) ==
    IF len = 0 THEN buffer_size
    ELSE span_buffer_size_advance(span_buffer_size(buffer_size, length, 1),
                                  length + 1, len - 1)

\* add_to_span: fprintf(stderr, "Letter %d, 0x%x\n", ...) is reached
letter_is_dropped(letter) == normalize_letter(letter)[1] >= 256

\* the formatter is running on the page being loaded
formatting == formatting_page # NULL /\ load_state.pc = "format"

\* format_letter: add_to_span on the last span of the last line
format_letter(letter) ==
    /\ formatting
    /\ SumLen(lines) + Len(normalize_letter(letter)) <= MaxFormatBytes
    /\ letter_is_dropped(letter) => load_state.letters_dropped < MaxDropped
    /\ lines' = [lines EXCEPT ![Len(lines)] = add_to_span(@, letter)]
    /\ load_state' = [load_state EXCEPT
                          !.letters_dropped = IF letter_is_dropped(letter) THEN @ + 1 ELSE @,
                          !.buffer_size =
                              IF letter_is_dropped(letter) THEN @
                              ELSE span_buffer_size(@, Len(lines[Len(lines)]),
                                                    Len(normalize_letter(letter))),
                          !.span_events = 1]
    /\ UNCHANGED <<window_height, scroll_position, search_start_scroll_position,
                   search_input_active, search_string, search_visible, searches, search_num,
                   search_index>>
    /\ UNCHANGED <<manpage_database, manpage_database_pwd, discovered, database_pc,
                   formatting_page, links>>
    /\ UNCHANGED <<nav_vars, dir_vars, launcher_vars, manpath_vars, mouse_vars, redisplay_needed>>

\* format_advance: len spaces are added to the last span
format_advance(len) ==
    /\ formatting
    /\ SumLen(lines) + len <= MaxFormatBytes
    /\ lines' = [lines EXCEPT ![Len(lines)] = @ \o [k \in 1..len |-> 32]]
    /\ load_state' = [load_state EXCEPT
                          !.buffer_size =
                              span_buffer_size_advance(@, Len(lines[Len(lines)]), len),
                          !.span_events = 1]
    /\ UNCHANGED <<window_height, scroll_position, search_start_scroll_position,
                   search_input_active, search_string, search_visible, searches, search_num,
                   search_index>>
    /\ UNCHANGED <<manpage_database, manpage_database_pwd, discovered, database_pc,
                   formatting_page, links>>
    /\ UNCHANGED <<nav_vars, dir_vars, launcher_vars, manpath_vars, mouse_vars, redisplay_needed>>

\* format_endline: add_line begins a new line with an empty span
format_endline ==
    /\ formatting
    /\ Len(lines) < MaxFormatLines
    /\ lines' = Append(lines, << >>)
    /\ load_state' = [load_state EXCEPT !.buffer_size = 0, !.span_events = 0]
    /\ UNCHANGED <<window_height, scroll_position, search_start_scroll_position,
                   search_input_active, search_string, search_visible, searches, search_num,
                   search_index>>
    /\ UNCHANGED <<manpage_database, manpage_database_pwd, discovered, database_pc,
                   formatting_page, links>>
    /\ UNCHANGED <<nav_vars, dir_vars, launcher_vars, manpath_vars, mouse_vars, redisplay_needed>>

\* the end of formatting that removes every empty line at the end of the page
RECURSIVE without_empty_tail(_)
without_empty_tail(d) ==
    IF Len(d) > 1 /\ Len(d[Len(d)]) = 0 THEN without_empty_tail(SubSeq(d, 1, Len(d) - 1))
    ELSE d

load_manpage_trim_every_empty_line ==
    /\ formatting
    /\ formatting_page' = NULL
    /\ lines' = without_empty_tail(lines)
    /\ load_state' = [load_state EXCEPT !.pc = "line", !.i = 0]
    /\ UNCHANGED <<window_height, scroll_position, search_start_scroll_position,
                   search_input_active, search_string, search_visible, searches, search_num,
                   search_index>>
    /\ UNCHANGED <<manpage_database, manpage_database_pwd, discovered, database_pc, links>>
    /\ UNCHANGED <<nav_vars, dir_vars, launcher_vars, manpath_vars, mouse_vars, redisplay_needed>>

\* load_manpage: the formatter has returned; formatting_page is cleared, an
\* empty last line of a page of more than one line is removed, and find_links
\* begins
load_manpage_trim ==
    /\ formatting
    /\ formatting_page' = NULL
    /\ lines' = IF Len(lines) > 1 /\ Len(lines[Len(lines)]) = 0
                THEN SubSeq(lines, 1, Len(lines) - 1)
                ELSE lines
    /\ load_state' = [load_state EXCEPT !.pc = "line", !.i = 0]
    /\ UNCHANGED <<window_height, scroll_position, search_start_scroll_position,
                   search_input_active, search_string, search_visible, searches, search_num,
                   search_index>>
    /\ UNCHANGED <<manpage_database, manpage_database_pwd, discovered, database_pc, links>>
    /\ UNCHANGED <<nav_vars, dir_vars, launcher_vars, manpath_vars, mouse_vars, redisplay_needed>>

\* ---------------------------------------------------------- link resolver
\* find_links: the copy loop that flattens a span into line[] ignoring the
\* backspace, which is then copied like any other byte
RECURSIVE find_links_flatten_keeps_backspace(_, _, _)
find_links_flatten_keeps_backspace(in, k, out) ==
    IF k > Len(in) \/ Len(out) >= LineBufferSize - 1 THEN out
    ELSE find_links_flatten_keeps_backspace(in, k + 1, Append(out, in[k]))

\* find_links: the copy loop that flattens a span into line[]; pos is Len(out)
RECURSIVE find_links_flatten(_, _, _)
find_links_flatten(in, k, out) ==
    IF k > Len(in) \/ Len(out) >= LineBufferSize - 1 THEN out
    ELSE IF in[k] = 8
         THEN find_links_flatten(in, k + 1,
                                 IF Len(out) > 0 THEN SubSeq(out, 1, Len(out) - 1) ELSE out)
         ELSE find_links_flatten(in, k + 1, Append(out, in[k]))

\* find_links: the characters that end a word
is_word_boundary(c) == c = 32 \/ c = 44 \/ c = 9 \/ c = 10 \/ c = 13

\* find_links: the characters a word cannot start with
is_word_start_skipped(c) == c = 40 \/ c = 41 \/ c = 124

\* find_links: the link pushed for the word completed by the ')' at offset str
\* of the flattened line i (both from 0)
make_link(word, str, i) ==
    LET x == (str + 1 - Len(word)) * get_character_width
        y == i * get_line_advance
    IN  [document_rectangle |-> [x |-> x, y |-> y,
                                 x2 |-> x + Len(word) * get_character_width,
                                 y2 |-> y + get_line_height],
         link |-> manpage_database[word],
         pwd |-> manpage_database_pwd[word],
         highlight |-> 0]

\* find_links: the outer loops; the span of line i is flattened and its scan
\* begins, a line whose span is empty is passed over
find_links_line ==
    /\ load_state.pc = "line"
    /\ IF load_state.i >= Len(lines)
       THEN load_state' = [load_state EXCEPT !.pc = "done"]
       ELSE IF Len(lines[load_state.i + 1]) > 0
       THEN load_state' = [load_state EXCEPT
                               !.pc = "scan",
                               !.line = find_links_flatten(lines[load_state.i + 1], 1, << >>),
                               !.str = 0, !.word_pos = 0, !.opening_paren = 0,
                               !.current_word = << >>]
       ELSE load_state' = [load_state EXCEPT !.i = @ + 1]
    /\ UNCHANGED <<manpage_database, manpage_database_pwd, discovered, database_pc,
                   formatting_page, links>>
    /\ UNCHANGED <<nav_vars, dir_vars, launcher_vars, doc_vars, manpath_vars, mouse_vars, redisplay_needed>>

\* find_links: one pass of the loop "while (*str)" over the flattened line.
\* current_word holds the word_pos bytes written since the word began.  A
\* write at or beyond index CurrentWordSize leaves the array: the behaviour is
\* undefined, and the scan either goes on as if the byte had fitted or the
\* process is ended ("aborted").
find_links_char ==
    /\ load_state.pc = "scan"
    /\ IF load_state.str >= Len(load_state.line)
       THEN /\ load_state' = [load_state EXCEPT !.pc = "line", !.i = @ + 1]
            /\ links' = links
       ELSE LET c == load_state.line[load_state.str + 1]
                word == Append(load_state.current_word, c)
                completes == c = 41 /\ load_state.opening_paren = 1
                \* current_word[word_pos++] = *str, and current_word[word_pos] = 0
                \* when the word is complete
                last_index == IF completes THEN Len(word) ELSE Len(word) - 1
            IN  IF is_word_boundary(c)
                THEN /\ load_state' = [load_state EXCEPT !.str = @ + 1, !.word_pos = 0,
                                                        !.opening_paren = 0,
                                                        !.current_word = << >>]
                     /\ links' = links
                ELSE IF load_state.word_pos = 0 /\ is_word_start_skipped(c)
                THEN /\ load_state' = [load_state EXCEPT !.str = @ + 1, !.opening_paren = 0]
                     /\ links' = links
                ELSE \/ /\ last_index >= CurrentWordSize
                        /\ load_state' = [load_state EXCEPT !.pc = "aborted"]
                        /\ links' = links
                     \/ IF completes
                        THEN /\ links' = IF word \in DOMAIN manpage_database
                                         THEN Append(links,
                                                     make_link(word, load_state.str, load_state.i))
                                         ELSE links
                             /\ load_state' = [load_state EXCEPT !.str = @ + 1, !.word_pos = 0,
                                                                 !.opening_paren = 0,
                                                                 !.current_word = << >>]
                        ELSE /\ links' = links
                             /\ load_state' = [load_state EXCEPT
                                                   !.str = @ + 1, !.word_pos = @ + 1,
                                                   !.opening_paren = IF c = 40 THEN 1 ELSE @,
                                                   !.current_word = word]
    /\ UNCHANGED <<manpage_database, manpage_database_pwd, discovered, database_pc,
                   formatting_page>>
    /\ UNCHANGED <<nav_vars, dir_vars, launcher_vars, doc_vars, manpath_vars, mouse_vars, redisplay_needed>>

\* the documents of n_lines lines and at most bytes bytes over LinkChars
RECURSIVE LinkDocumentsOf(_, _)
LinkDocumentsOf(n_lines, bytes) ==
    IF n_lines = 1 THEN {<<l>> : l \in Strings(LinkChars, 0, bytes)}
    ELSE UNION {{<<l>> \o d : d \in LinkDocumentsOf(n_lines - 1, bytes - Len(l))} :
                    l \in Strings(LinkChars, 0, bytes)}

\* the documents find_links scans: at least one line (add_line), no empty
\* last line when there is more than one
LinkDocuments ==
    UNION {{d \in LinkDocumentsOf(n, MaxLinkBytes - (n - 1)) : n > 1 => Len(d[n]) > 0} :
               n \in 1..MaxLinkLines}

\* the catalog the links are resolved against: the keys "a()" and "aa()", of
\* pages in two directories
LinkCatalogs ==
    {<<EntryOf("/usr/share/man", MakeKey(<<97>>, << >>)),
       EntryOf("/usr/local/man", MakeKey(<<97, 97>>, << >>))>>}

\* ----------------------------------------------------------- mouse buttons
\* where a button event finds the pointer: on the scrollbar thumb, on the
\* scrollbar above or below the thumb, on text without a link, or on one of
\* the links of the page
MousePlaces == {"thumb", "above", "below", "text", "link1", "link2", "link3"}

\* link_under_cursor: the index (from 1) of the link the place lies in, 0 for
\* the null pointer
link_under_cursor(place) ==
    IF place = "link1" THEN 1
    ELSE IF place = "link2" THEN 2
    ELSE IF place = "link3" THEN 3
    ELSE 0

\* the links find_links left on a page: two references to ls(1) on lines 0
\* and 2 and one to cat(1) on line 1
PageLinks ==
    [i \in 1..3 |->
        [document_rectangle |-> [x |-> 0, y |-> (i - 1) * get_line_advance,
                                 x2 |-> 5 * get_character_width,
                                 y2 |-> (i - 1) * get_line_advance + get_line_height],
         link |-> IF i = 2 THEN "cat.1" ELSE "ls.1",
         pwd |-> FileDirs[IF i = 2 THEN "cat.1" ELSE "ls.1"],
         highlight |-> 0]]

\* mouse_button_func, D_MANPAGE, GLFW_MOUSE_BUTTON_LEFT, GLFW_PRESS
mouse_button_func_press(place) ==
    /\ display_mode = D_MANPAGE
    /\ IF place = "thumb"
       THEN /\ scrollbar_dragging' = 1
            /\ UNCHANGED <<clicked_in_link, link, doc_fields, redisplay_needed>>
       ELSE IF place \in {"above", "below"}
       THEN /\ set_page_scroll_position(
                   IF place = "above"
                   THEN doc_fields[page].scroll_position - (window_height - get_line_advance)
                   ELSE doc_fields[page].scroll_position + window_height - get_line_advance)
            /\ UNCHANGED <<clicked_in_link, link, scrollbar_dragging>>
       ELSE /\ LET l == link_under_cursor(place) IN
                 IF l # NULL
                 THEN /\ clicked_in_link' = 1
                      /\ link' = links[l]
                 ELSE /\ clicked_in_link' = 0
                      /\ link' = link
            /\ UNCHANGED <<scrollbar_dragging, doc_fields, redisplay_needed>>
    /\ hist' = Record("press", place)
    /\ UNCHANGED <<page_stack, stack_pos, page, display_mode, n_alloc, doc_file, freed>>
    /\ UNCHANGED <<cwd, doc_pwd, last_chdir, load_vars, manpath_vars>>
    /\ UNCHANGED launcher_vars
    /\ UNCHANGED doc_vars

\* mouse_button_func, D_MANPAGE, GLFW_MOUSE_BUTTON_LEFT, GLFW_RELEASE: the
\* link copied on the press is followed when the pointer is on a link with
\* the same rectangle and the same target
mouse_button_func_release(place) ==
    /\ display_mode = D_MANPAGE
    /\ scrollbar_dragging' = 0
    /\ UNCHANGED <<clicked_in_link, link>>
    /\ LET l == link_under_cursor(place) IN
         IF /\ clicked_in_link # 0
            /\ l # NULL
            /\ links[l].document_rectangle = link.document_rectangle
            /\ links[l].link = link.link
         THEN open_new_page(link.link, link.pwd)
         ELSE /\ hist' = Record("release", place)
              /\ UNCHANGED <<page_stack, stack_pos, page, display_mode, n_alloc, doc_file,
                             freed>>
              /\ UNCHANGED <<dir_vars, load_vars, manpath_vars, redisplay_needed>>
              /\ UNCHANGED launcher_vars
              /\ UNCHANGED doc_vars

\* ------------------------------------------------------- specifications
\* main: started without a file the launcher is shown and the stack is empty;
\* started with a file that page is loaded, pushed and displayed.
Init ==
    /\ redisplay_needed = TRUE
    /\ NoCatalog
    /\ NoDocument
    /\ NoLoad
    /\ NoManpath
    /\ NoMouse
    /\ hist = << >>
    /\ freed = {}
    /\ cwd = StartDir
    /\ last_chdir = "skipped"
    /\ \/ /\ display_mode = D_SEARCH
          /\ page_stack = << >>
          /\ stack_pos = 0
          /\ page = NULL
          /\ n_alloc = 0
          /\ doc_file = << >>
          /\ doc_pwd = << >>
          /\ doc_fields = << >>
       \/ \E f \in Files :
          /\ display_mode = D_MANPAGE
          /\ page_stack = <<1>>
          /\ stack_pos = 1
          /\ page = 1
          /\ n_alloc = 1
          /\ doc_file = <<f>>
          \* getcwd(pwd, sizeof(pwd)), or "" when it fails
          /\ doc_pwd \in {<<StartDir>>, <<"">>}
          /\ doc_fields = <<ZeroFields>>

Next ==
    \/ \E f \in Files : open_new_page(f, FileDirs[f]) /\ UNCHANGED mouse_vars
    \/ page_back
    \/ page_forward
    \/ key_ctrl_f

Spec == Init /\ [][Next]_vars

\* main started with a file; pages are opened, scrolled and searched, and
\* the history is walked with back and forward
InitHistory ==
    /\ Init
    /\ display_mode = D_MANPAGE
    /\ doc_pwd = <<StartDir>>

NextHistory ==
    \/ \E f \in Files : /\ n_alloc < MaxHistoryDocs
                         /\ open_new_page(f, FileDirs[f])
                         /\ UNCHANGED mouse_vars
    \/ page_back
    \/ page_forward
    \/ \E direction \in {-1, 1} : key_scroll_page(direction)
    \/ \E visible \in {0, 1} : key_search_page(visible)

SpecHistory == InitHistory /\ [][NextHistory]_vars

\* main started with a file whose page holds the links of PageLinks; the left
\* button is pressed and released over the page
InitMouse ==
    /\ redisplay_needed = TRUE
    /\ hist = << >>
    /\ freed = {}
    /\ display_mode = D_MANPAGE
    /\ page_stack = <<1>>
    /\ stack_pos = 1
    /\ page = 1
    /\ n_alloc = 1
    /\ doc_file = <<"ls.1">>
    /\ cwd = StartDir
    /\ doc_pwd = <<StartDir>>
    /\ doc_fields = <<ZeroFields>>
    /\ last_chdir = "skipped"
    /\ NoManpath
    /\ NoMouse
    /\ NoCatalog
    /\ NoDocument
    /\ formatting_page = NULL
    /\ load_state = LoadIdle
    /\ links = PageLinks

\* the left button is down: its last event was a press
left_button_down == Len(hist) > 0 /\ hist[Len(hist)].op = "press"

\* presses and releases of one button alternate
NextMouse ==
    \/ \E place \in MousePlaces : ~left_button_down /\ mouse_button_func_press(place)
    \/ \E place \in MousePlaces : /\ left_button_down
                                   /\ n_alloc < MaxHistoryDocs
                                   /\ mouse_button_func_release(place)

SpecMouse == InitMouse /\ [][NextMouse]_vars

\* main started without a file: the launcher over the catalog that
\* make_manpage_database built
InitLauncherOver(catalogs) ==
    /\ redisplay_needed = TRUE
    /\ hist = << >>
    /\ freed = {}
    /\ display_mode = D_SEARCH
    /\ page_stack = << >>
    /\ stack_pos = 0
    /\ page = NULL
    /\ n_alloc = 0
    /\ doc_file = << >>
    /\ cwd = StartDir
    /\ doc_pwd = << >>
    /\ doc_fields = << >>
    /\ last_chdir = "skipped"
    /\ NoLoad
    /\ NoManpath
    /\ NoMouse
    /\ manpage_names \in catalogs
    /\ DatabaseOver(manpage_names)
    /\ manpage_names_lower = [i \in 1..Len(manpage_names) |-> Lowercase(manpage_names[i])]
    /\ search_term = << >>
    /\ matches = [k \in 1..MaxMatches |-> [idx |-> 0, goodness |-> 0]]
    /\ matches_count = 0
    /\ results_selected_index = 0
    /\ results_view_offset = 0
    /\ scan_i = Len(manpage_names)
    /\ selection_before = [selected_index |-> 0, view_offset |-> 0]
    /\ NoDocument

\* main started with a file: the page is loaded and displayed
InitPage ==
    /\ redisplay_needed = TRUE
    /\ hist = << >>
    /\ freed = {}
    /\ display_mode = D_MANPAGE
    /\ page_stack = <<1>>
    /\ stack_pos = 1
    /\ page = 1
    /\ n_alloc = 1
    /\ doc_file \in {<<f>> : f \in {"ls.1"}}
    /\ cwd = StartDir
    /\ doc_pwd = <<StartDir>>
    /\ doc_fields = <<ZeroFields>>
    /\ last_chdir = "skipped"
    /\ NoLoad
    /\ NoManpath
    /\ NoMouse
    /\ NoCatalog
    /\ lines \in Documents
    /\ window_height \in WindowHeights
    /\ scroll_position = 0
    /\ search_start_scroll_position = 0
    /\ search_input_active = 0
    /\ search_string = << >>
    /\ search_visible = 0
    /\ searches = [k \in 1..MaxSearches |-> ZeroRect]
    /\ search_num = 0
    /\ search_index = 0

\* main started without a file, over every catalog
InitLauncher == InitLauncherOver(Catalogs)

InitSearch == InitLauncher \/ InitPage

NextSearch ==
    \/ \E c \in QueryChars : char_func_launcher(c)
    \/ key_backspace_launcher
    \/ key_escape_launcher
    \/ update_search_step
    \/ char_func_slash
    \/ \E c \in PageQueryChars : char_func_search_input(c)
    \/ key_backspace_search_input
    \/ key_escape_search_input
    \/ key_enter_search_input
    \/ key_enter_clear_search
    \/ \E d \in {-1, 1} : char_func_scroll(d)

SpecSearch == InitSearch /\ [][NextSearch]_vars

\* main started without a file, the launcher with its result box: query
\* editing, Up and Down, the wheel and the pointer
InitResults == InitLauncherOver(ResultCatalogs)

NextResults ==
    \/ \E c \in ResultQueryChars : char_func_launcher(c)
    \/ key_backspace_launcher
    \/ key_escape_launcher
    \/ update_search_step
    \/ key_up_launcher
    \/ key_down_launcher
    \/ \E dir \in {-1, 1} : \E index \in results_hittest_values :
          mouse_scroll_func_launcher(dir, index)
    \/ \E index \in results_hittest_values : mouse_pos_func_launcher(index)

SpecResults == InitResults /\ [][NextResults]_vars

\* the keys whose ranking is compared: the letter a after MaxMatchPosition or
\* fewer letters b, followed by no letters b, by PositionWeight or by
\* PositionWeight + 1 of them (keys are built in char key[577])
RankingKeys ==
    {MakeKey([k \in 1..(p + 1 + t) |-> IF k = p + 1 THEN 97 ELSE 98], << >>) :
        p \in 0..MaxMatchPosition, t \in {0, PositionWeight, PositionWeight + 1}}

\* the catalogs of two different such keys, sorted as make_manpage_database
\* sorts them
RankingCatalogs ==
    {c \in Strings(RankingKeys, 2, 2) : c[1] # c[2] /\ SortedByLowercase(c)}

\* main started without a file over such a catalog: the query is typed and
\* edited, update_search ranks the keys
InitRanking == InitLauncherOver(RankingCatalogs)

NextRanking ==
    \/ \E c \in {97, 98} : char_func_launcher(c)
    \/ key_backspace_launcher
    \/ update_search_step

SpecRanking == InitRanking /\ [][NextRanking]_vars

\* main started with a file, the view of that page: scrolling, resizing and
\* the page-local search with its current match
InitView ==
    /\ redisplay_needed = TRUE
    /\ hist = << >>
    /\ freed = {}
    /\ display_mode = D_MANPAGE
    /\ page_stack = <<1>>
    /\ stack_pos = 1
    /\ page = 1
    /\ n_alloc = 1
    /\ doc_file \in {<<f>> : f \in {"ls.1"}}
    /\ cwd = StartDir
    /\ doc_pwd = <<StartDir>>
    /\ doc_fields = <<ZeroFields>>
    /\ last_chdir = "skipped"
    /\ NoLoad
    /\ NoManpath
    /\ NoMouse
    /\ NoCatalog
    /\ lines \in ViewDocuments
    /\ window_height \in ViewWindowHeights
    /\ scroll_position = 0
    /\ search_start_scroll_position = 0
    /\ search_input_active = 0
    /\ search_string = << >>
    /\ search_visible = 0
    /\ searches = [k \in 1..MaxSearches |-> ZeroRect]
    /\ search_num = 0
    /\ search_index = 0

NextView ==
    \/ char_func_slash
    \/ \E c \in ViewQueryChars : char_func_search_input(c)
    \/ key_backspace_search_input
    \/ key_escape_search_input
    \/ key_enter_search_input
    \/ key_enter_clear_search
    \/ \E d \in {-1, 1} : char_func_scroll(d)
    \/ \E target \in {0, 1000000000} : key_func_home_end(target)
    \/ \E amount \in {-1, 1} : scroll_page(amount)
    \/ \E d \in {-1, 1} : mouse_scroll_func_page(d)
    \/ char_func_n
    \/ char_func_N
    \/ \E h \in ViewWindowHeights : window_size_func(h)
    \/ render

SpecView == InitView /\ [][NextView]_vars

\* the page-local search with nothing but query edits between '/' and the
\* key that ends the input; the wheel and the window size act outside it
NextPageSearch ==
    \/ char_func_slash
    \/ \E c \in ViewQueryChars : char_func_search_input(c)
    \/ key_backspace_search_input
    \/ key_escape_search_input
    \/ key_enter_search_input
    \/ \E d \in {-1, 1} : search_input_active = 0 /\ mouse_scroll_func_page(d)
    \/ \E h \in ViewWindowHeights : search_input_active = 0 /\ window_size_func(h)

SpecPageSearch == InitView /\ [][NextPageSearch]_vars

\* main started with a file, inside load_manpage: the formatter has returned,
\* the trailing empty line is removed and find_links is about to run
InitLinks ==
    /\ redisplay_needed = TRUE
    /\ hist = << >>
    /\ freed = {}
    /\ display_mode = D_MANPAGE
    /\ page_stack = << >>
    /\ stack_pos = 0
    /\ page = NULL
    /\ n_alloc = 1
    /\ doc_file = <<"ls.1">>
    /\ cwd = StartDir
    /\ doc_pwd = <<StartDir>>
    /\ doc_fields = <<ZeroFields>>
    /\ last_chdir = "skipped"
    /\ NoManpath
    /\ NoMouse
    /\ \E c \in LinkCatalogs :
          /\ discovered = c
          /\ manpage_names = [k \in 1..Len(c) |-> c[k].key]
          /\ manpage_database = [k \in {c[j].key : j \in 1..Len(c)} |->
                                    (CHOOSE e \in {c[j] : j \in 1..Len(c)} : e.key = k).file]
          /\ manpage_database_pwd = [k \in {c[j].key : j \in 1..Len(c)} |->
                                    (CHOOSE e \in {c[j] : j \in 1..Len(c)} : e.key = k).pwd]
    /\ database_pc = "done"
    /\ manpage_names_lower = [k \in 1..Len(manpage_names) |-> Lowercase(manpage_names[k])]
    /\ search_term = << >>
    /\ matches = [k \in 1..MaxMatches |-> [idx |-> 0, goodness |-> 0]]
    /\ matches_count = 0
    /\ results_selected_index = 0
    /\ results_view_offset = 0
    /\ scan_i = 0
    /\ selection_before = [selected_index |-> 0, view_offset |-> 0]
    /\ lines \in LinkDocuments
    /\ window_height = 560
    /\ scroll_position = 0
    /\ search_start_scroll_position = 0
    /\ search_input_active = 0
    /\ search_string = << >>
    /\ search_visible = 0
    /\ searches = [k \in 1..MaxSearches |-> ZeroRect]
    /\ search_num = 0
    /\ search_index = 0
    /\ formatting_page = NULL
    /\ load_state = [LoadIdle EXCEPT !.pc = "line"]
    /\ links = << >>

\* main started without a file, before make_manpage_database has globbed
InitCatalog ==
    /\ redisplay_needed = TRUE
    /\ hist = << >>
    /\ freed = {}
    /\ display_mode = D_SEARCH
    /\ page_stack = << >>
    /\ stack_pos = 0
    /\ page = NULL
    /\ n_alloc = 0
    /\ doc_file = << >>
    /\ cwd = StartDir
    /\ doc_pwd = << >>
    /\ doc_fields = << >>
    /\ last_chdir = "skipped"
    /\ NoLoad
    /\ NoManpath
    /\ NoMouse
    /\ NoDocument
    /\ manpage_database = << >>
    /\ manpage_database_pwd = << >>
    /\ discovered = << >>
    /\ database_pc = "glob"
    /\ manpage_names = << >>
    /\ manpage_names_lower = << >>
    /\ search_term = << >>
    /\ matches = [k \in 1..MaxMatches |-> [idx |-> 0, goodness |-> 0]]
    /\ matches_count = 0
    /\ results_selected_index = 0
    /\ results_view_offset = 0
    /\ scan_i = 0
    /\ selection_before = [selected_index |-> 0, view_offset |-> 0]

NextCatalog ==
    \/ \E dir \in ManDirs : \E key \in Keys : make_manpage_database_file(dir, key)
    \/ make_manpage_database_sort

SpecCatalog == InitCatalog /\ [][NextCatalog]_vars

NextManpath ==
    \E read_ok, calloc_ok \in BOOLEAN : \E output \in ManpathOutputs :
        get_man_paths_from_manpath_executable(read_ok, output, calloc_ok)

SpecManpath == InitCatalog /\ [][NextManpath]_vars

\* main started with a file, inside load_manpage: add_line has made the first
\* line and the formatter is about to run; no page is in the catalog
InitFormat ==
    /\ redisplay_needed = TRUE
    /\ hist = << >>
    /\ freed = {}
    /\ display_mode = D_MANPAGE
    /\ page_stack = << >>
    /\ stack_pos = 0
    /\ page = NULL
    /\ n_alloc = 1
    /\ doc_file = <<"ls.1">>
    /\ cwd = StartDir
    /\ doc_pwd = <<StartDir>>
    /\ doc_fields = <<ZeroFields>>
    /\ last_chdir = "skipped"
    /\ NoManpath
    /\ NoMouse
    /\ NoCatalog
    /\ lines = << << >> >>
    /\ window_height = 560
    /\ scroll_position = 0
    /\ search_start_scroll_position = 0
    /\ search_input_active = 0
    /\ search_string = << >>
    /\ search_visible = 0
    /\ searches = [k \in 1..MaxSearches |-> ZeroRect]
    /\ search_num = 0
    /\ search_index = 0
    /\ formatting_page = 1
    /\ load_state = [LoadIdle EXCEPT !.pc = "format"]
    /\ links = << >>

NextFormat ==
    \/ \E letter \in FormatLetters : format_letter(letter)
    \/ \E len \in 1..2 : format_advance(len)
    \/ format_endline
    \/ load_manpage_trim
    \/ find_links_line
    \/ find_links_char

SpecFormat == InitFormat /\ [][NextFormat]_vars

NextLinks ==
    \/ find_links_line
    \/ find_links_char

SpecLinks == InitLinks /\ [][NextLinks]_vars

\* ------------------------------------------------- navigation stack claims
\* the state the k-th remembered event ended in
Post(k) == IF k = Len(hist) THEN NavState ELSE hist[k + 1].pre

\* slot i (from 1) of state s holds a document that has not been destroyed
HoldsLiveDoc(s, i) ==
    /\ i >= 1
    /\ i <= Len(s.page_stack)
    /\ s.page_stack[i] # NULL
    /\ s.page_stack[i] \notin s.freed

\* documents exist ahead of the current position of s
DocsAhead(s) == {s.page_stack[i] : i \in {j \in (s.stack_pos + 1)..Len(s.page_stack) :
                                            s.page_stack[j] # NULL}}

\* number of documents the stack of s holds
Depth(s) == Cardinality({i \in 1..Len(s.page_stack) : s.page_stack[i] # NULL})

C2_BackMovesLeftOrShowsLauncher ==
    \A k \in 1..Len(hist) :
        LET pre == hist[k].pre
            post == Post(k)
        IN  hist[k].op = "back" =>
                /\ pre.stack_pos > 1 =>
                        /\ post.stack_pos = pre.stack_pos - 1
                        /\ post.page = pre.page_stack[pre.stack_pos - 1]
                        /\ post.page # NULL
                        /\ post.display_mode = D_MANPAGE
                /\ pre.stack_pos <= 1 => post.display_mode = D_SEARCH
                /\ post.freed = pre.freed
                /\ post.page_stack = pre.page_stack
                /\ post.doc_file = pre.doc_file

\* reached: both a back() to an older document and a back() at the oldest one
C2_Witness ==
    /\ Len(hist) >= 2
    /\ hist[Len(hist) - 1].op = "back"
    /\ hist[Len(hist) - 1].pre.stack_pos = 2
    /\ hist[Len(hist)].op = "back"
    /\ display_mode = D_SEARCH

\* C3: forward() moves right by one and displays the next document exactly
\* when the slot after the current position holds a live document; otherwise
\* stack, position, displayed document and display mode are unchanged.
C3_ForwardOnlyIntoLiveHistory ==
    \A k \in 1..Len(hist) :
        LET pre == hist[k].pre
            post == Post(k)
        IN  hist[k].op = "forward" =>
                IF HoldsLiveDoc(pre, pre.stack_pos + 1)
                THEN /\ post.stack_pos = pre.stack_pos + 1
                     /\ post.page = pre.page_stack[pre.stack_pos + 1]
                     /\ post.page_stack = pre.page_stack
                     /\ post.display_mode = pre.display_mode
                     /\ post.freed = pre.freed
                ELSE post = pre

\* reached: a forward() that moved, and a forward() into a slot emptied by open
C3_Witness ==
    /\ Len(hist) = 3
    /\ hist[1].op = "forward"
    /\ hist[2].pre.stack_pos = hist[1].pre.stack_pos + 1
    /\ hist[3].op = "forward"
    /\ hist[3].pre.stack_pos < Len(hist[3].pre.page_stack)
    /\ hist[3].pre.page_stack[hist[3].pre.stack_pos + 1] = NULL

\* the scenario of C4 at remembered events k and k + 1: three documents, the
\* most recent displayed, then back() and open(X)
C4_Scenario(k) ==
    /\ k + 1 <= Len(hist)
    /\ hist[k].op = "back"
    /\ hist[k].pre.display_mode = D_MANPAGE
    /\ Len(hist[k].pre.page_stack) = 3
    /\ Depth(hist[k].pre) = 3
    /\ hist[k].pre.stack_pos = 3
    /\ hist[k + 1].op = "open"

\* C4 as stated: after back() and open(X) on a stack of depth 3 the slot-2
\* document is destroyed and the stack is left at depth 2 with X on top.
C4_DepthTwoAfterBranch ==
    \A k \in 1..Len(hist) :
        C4_Scenario(k) =>
            LET post == Post(k + 1) IN
                /\ hist[k].pre.page_stack[3] \in post.freed
                /\ Depth(post) = 2
                /\ post.page_stack[Len(post.page_stack)] = post.page

\* C4 amended: the slot-2 document is destroyed and X takes slot 2, so the
\* stack keeps depth 3 with X on top and the two older documents untouched; a
\* forward() issued next changes nothing.
C4_BranchKeepsDepthThree ==
    \A k \in 1..Len(hist) :
        C4_Scenario(k) =>
            LET pre == hist[k].pre
                post == Post(k + 1)
            IN  /\ pre.page_stack[3] \in post.freed
                /\ Depth(post) = 3
                /\ Len(post.page_stack) = 3
                /\ post.stack_pos = 3
                /\ post.page_stack[3] = post.page
                /\ post.doc_file[post.page] = hist[k + 1].file
                /\ post.page \notin post.freed
                /\ post.page_stack[1] = pre.page_stack[1]
                /\ post.page_stack[2] = pre.page_stack[2]
                /\ post.freed = pre.freed \cup {pre.page_stack[3]}
                /\ (k + 2 <= Len(hist) /\ hist[k + 2].op = "forward" => Post(k + 2) = post)

\* reached: the scenario followed by forward()
C4_Witness ==
    /\ C4_Scenario(1)
    /\ Len(hist) = 3
    /\ hist[3].op = "forward"

\* C5: the current-position index lies within [0, number of slots].
C5_StackPosInRange ==
    /\ stack_pos >= 0
    /\ stack_pos <= sb_count(page_stack)

\* reached: the position strictly inside the stack after open, back and forward
C5_Witness ==
    /\ Len(hist) = 3
    /\ hist[1].op = "open"
    /\ hist[2].op = "back"
    /\ hist[3].op = "forward"
    /\ stack_pos = sb_count(page_stack)
    /\ hist[3].pre.stack_pos < sb_count(page_stack)

\* ------------------------------------------------ launcher search claims
\* term occurs in text at offset p (from 0)
OccursAt(term, text, p) ==
    /\ p >= 0
    /\ p + Len(term) <= Len(text)
    /\ \A j \in 1..Len(term) : text[p + j] = term[j]

\* term is a substring of text
Contains(term, text) == \E p \in 0..Len(text) : OccursAt(term, text, p)

FirstOccurrence(term, text) == Min({p \in 0..Len(text) : OccursAt(term, text, p)})

HasUppercase(term) == \E k \in 1..Len(term) : term[k] >= 65 /\ term[k] <= 90

\* the name of entry i (from 1) the query is to be compared with: as-is for a
\* query with an uppercase letter, lowercased otherwise
ScannedName(i) ==
    IF HasUppercase(search_term) THEN manpage_names[i] ELSE Lowercase(manpage_names[i])

\* catalog entries (from 0) held in the result array
KeptEntries == {matches[k].idx : k \in 1..matches_count}

\* a recompute for a non-empty query has run to its end
SearchDone ==
    /\ display_mode = D_SEARCH
    /\ Len(search_term) > 0
    /\ scan_i = Len(manpage_names)

\* C6: after update_search with a non-empty query, when at most the capacity
\* of keys contain the query, the results are exactly those keys, each with
\* score -(first position) * 100 - (key length - query length), keys matched
\* at their very end and keys equal to the query included.
C6_ResultsAreExactlyTheContainingKeys ==
    SearchDone =>
        LET containing == {i \in 1..Len(manpage_names) : Contains(search_term, ScannedName(i))}
        IN  Cardinality(containing) <= MaxMatches =>
                /\ matches_count = Cardinality(containing)
                /\ {i - 1 : i \in containing} = KeptEntries
                /\ \A k \in 1..matches_count :
                        LET name == ScannedName(matches[k].idx + 1)
                        IN  matches[k].goodness =
                                (0 - FirstOccurrence(search_term, name)) * 100
                                    - (Len(name) - Len(search_term))

\* C7: during and after a recompute the kept scores are non-increasing, and
\* once the array is full every scanned matching entry that is not kept scores
\* no more than the lowest kept score.
C7_RankedAndTopN ==
    display_mode = D_SEARCH =>
        /\ \A k \in 1..(matches_count - 1) : matches[k].goodness >= matches[k + 1].goodness
        /\ matches_count = MaxMatches =>
                \A i \in 0..(scan_i - 1) :
                    LET position == find_string(search_term, manpage_names_chosen[i + 1])
                    IN  (position >= 0 /\ i \notin KeptEntries) =>
                            goodness_of(i, position) <= matches[MaxMatches].goodness

\* reached: a full array with distinct scores and a scanned match left out
C7_Witness ==
    /\ SearchDone
    /\ matches_count = MaxMatches
    /\ matches[1].goodness > matches[MaxMatches].goodness
    /\ \E i \in 0..(scan_i - 1) :
            /\ find_string(search_term, manpage_names_chosen[i + 1]) >= 0
            /\ i \notin KeptEntries
            /\ i < matches[1].idx

\* the entry the next loop iteration looks at matches, the array is full
ScansMatchAtCapacity ==
    /\ display_mode = D_SEARCH
    /\ scan_i < Len(manpage_names)
    /\ matches_count = MaxMatches
    /\ find_string(search_term, manpage_names_chosen[scan_i + 1]) >= 0

NextGoodness ==
    goodness_of(scan_i, find_string(search_term, manpage_names_chosen[scan_i + 1]))

\* C8 as stated: with the array full, a later match scoring equal to or below
\* the lowest kept score leaves the array unchanged.
C8_EqualOrBelowRejected ==
    [][(ScansMatchAtCapacity /\ NextGoodness <= matches[MaxMatches].goodness)
            => (matches' = matches /\ matches_count' = matches_count)]_vars

\* C8 amended: a later match scoring strictly below the lowest kept score
\* leaves the array unchanged; one scoring equal to it is inserted and the
\* last kept entry is dropped.
C8_BelowRejectedEqualInserted ==
    [][ScansMatchAtCapacity =>
            /\ NextGoodness < matches[MaxMatches].goodness
                    => (matches' = matches /\ matches_count' = matches_count)
            /\ NextGoodness = matches[MaxMatches].goodness
                    => /\ matches_count' = matches_count
                       /\ \E k \in 1..MaxMatches :
                            /\ matches'[k] = [idx |-> scan_i, goodness |-> NextGoodness]
                            /\ \A m \in 1..(k - 1) : matches'[m] = matches[m]
                            /\ \A m \in (k + 1)..MaxMatches : matches'[m] = matches[m - 1]
                            /\ \A m \in 1..(k - 1) : matches[m].goodness > NextGoodness]_vars

\* reached: the array is full and the entry scanned last, a match scoring
\* below the lowest kept score, is not in it
C8_Witness ==
    /\ display_mode = D_SEARCH
    /\ scan_i >= 1
    /\ matches_count = MaxMatches
    /\ find_string(search_term, manpage_names_chosen[scan_i]) >= 0
    /\ goodness_of(scan_i - 1, find_string(search_term, manpage_names_chosen[scan_i]))
            < matches[MaxMatches].goodness
    /\ (scan_i - 1) \notin KeptEntries

\* ------------------------------------------------------ case policy claim
\* the flattened text of line i (from 0) of the displayed document
FlatLine(i) == flatten_span(lines[i + 1], 1, << >>)

\* the rectangle of a match of the query at offset off of line i
MatchRect(i, off, query) ==
    [x |-> off * FONT_CHAR_WIDTH, y |-> i * get_line_advance,
     x2 |-> off * FONT_CHAR_WIDTH + Len(query) * FONT_CHAR_WIDTH,
     y2 |-> i * get_line_advance + FONT_CHAR_HEIGHT]

\* the places (line, offset) of the recorded page-local matches
RecordedPlaces ==
    {pl \in (0..(Len(lines) - 1)) \X (0..MaxLineLen) :
        \E k \in 1..search_num : searches[k] = MatchRect(pl[1], pl[2], search_string)}

\* a recorded match covers offset off of line i
CoveredByRecorded(i, off) ==
    \E pl \in RecordedPlaces :
        pl[1] = i /\ pl[2] <= off /\ off < pl[2] + Len(search_string)

\* C9: in both engines a query without an uppercase letter matches text
\* whatever its letter case, and a query with an uppercase letter matches
\* only text of exactly the same case.
C9_CasePolicy ==
    /\ (page_view /\ Len(search_string) > 0) =>
            /\ \A k \in 1..search_num :
                    \E pl \in RecordedPlaces : searches[k] = MatchRect(pl[1], pl[2], search_string)
            /\ \A pl \in RecordedPlaces :
                    IF HasUppercase(search_string)
                    THEN OccursAt(search_string, FlatLine(pl[1]), pl[2])
                    ELSE OccursAt(search_string, Lowercase(FlatLine(pl[1])), pl[2])
            /\ (~HasUppercase(search_string) /\ search_num < MaxSearches) =>
                    \A i \in 0..(Len(lines) - 1) : \A off \in 0..MaxLineLen :
                        OccursAt(search_string, Lowercase(FlatLine(i)), off)
                            => CoveredByRecorded(i, off)
            /\ (HasUppercase(search_string) /\ search_num < MaxSearches) =>
                    \A i \in 0..(Len(lines) - 1) : \A off \in 0..MaxLineLen :
                        OccursAt(search_string, FlatLine(i), off) => CoveredByRecorded(i, off)
    /\ SearchDone =>
            /\ \A i \in KeptEntries :
                    IF HasUppercase(search_term)
                    THEN Contains(search_term, manpage_names[i + 1])
                    ELSE Contains(search_term, Lowercase(manpage_names[i + 1]))
            /\ matches_count < MaxMatches =>
                    \A i \in 1..Len(manpage_names) :
                        /\ (\E j \in KeptEntries :
                                /\ ~HasUppercase(search_term)
                                /\ Lowercase(manpage_names[j + 1]) = Lowercase(manpage_names[i]))
                                    => (i - 1) \in KeptEntries
                        /\ (\E q \in 0..Len(manpage_names[i]) :
                                /\ q + Len(search_term) < Len(manpage_names[i])
                                /\ IF HasUppercase(search_term)
                                   THEN OccursAt(search_term, manpage_names[i], q)
                                   ELSE OccursAt(search_term, Lowercase(manpage_names[i]), q))
                                    => (i - 1) \in KeptEntries

\* reached, page-local: query "a" recorded on an 'A' and on an 'a'
C9_WitnessPageLowercase ==
    /\ page_view
    /\ search_string = <<97>>
    /\ \E p1 \in RecordedPlaces : FlatLine(p1[1])[p1[2] + 1] = 65
    /\ \E p2 \in RecordedPlaces : FlatLine(p2[1])[p2[2] + 1] = 97

\* reached, page-local: query "A" recorded on an 'A' in a document that also
\* holds an 'a'
C9_WitnessPageUppercase ==
    /\ page_view
    /\ search_string = <<65>>
    /\ search_num = 1
    /\ \E i \in 0..(Len(lines) - 1) : \E off \in 1..Len(FlatLine(i)) : FlatLine(i)[off] = 97

\* reached, launcher: query "a" keeps a key "A..." and a key "a...", or query
\* "A" keeps a key "A..." and leaves out a key "a..."
C9_WitnessLauncher ==
    /\ SearchDone
    /\ \/ /\ search_term = <<97>>
          /\ \E i \in KeptEntries : manpage_names[i + 1][1] = 65
          /\ \E i \in KeptEntries : manpage_names[i + 1][1] = 97
       \/ /\ search_term = <<65>>
          /\ \E i \in KeptEntries : manpage_names[i + 1][1] = 65
          /\ \E i \in 1..Len(manpage_names) :
                manpage_names[i] = <<97, 40, 41>> /\ (i - 1) \notin KeptEntries

\* ------------------------------------------------ page-local search claims
\* the query occurs at offset off of a flattened line under the case policy
PolicyOccursAt(flat, off, query) ==
    IF HasUppercase(query) THEN OccursAt(query, flat, off)
    ELSE OccursAt(query, Lowercase(flat), off)

\* the non-overlapping occurrences of the query in a flattened line, taken
\* left to right: every member is an occurrence, two members do not overlap,
\* and an occurrence that is no member starts inside a member
NonOverlapping(flat, query) ==
    CHOOSE S \in SUBSET (0..Len(flat)) :
        /\ \A o \in S : PolicyOccursAt(flat, o, query)
        /\ \A o1 \in S : \A o2 \in S : o1 < o2 => o1 + Len(query) <= o2
        /\ \A o \in 0..Len(flat) :
                (PolicyOccursAt(flat, o, query) /\ o \notin S) =>
                    \E o1 \in S : o1 < o /\ o < o1 + Len(query)

\* the places (line, offset) update_page_search is to record
ExpectedPlaces ==
    IF Len(search_string) = 0 THEN {}
    ELSE UNION {{<<i, o>> : o \in NonOverlapping(FlatLine(i), search_string)} :
                    i \in 0..(Len(lines) - 1)}

\* the rank (from 1) of a place among the places E, in document order
Rank(pl, E) ==
    1 + Cardinality({q \in E : q[1] < pl[1] \/ (q[1] = pl[1] /\ q[2] < pl[2])})

\* C10 as stated: the recorded matches are exactly the non-overlapping
\* occurrences in document order, each at x = offset * character width and
\* y = line index * line height; none for an empty query or no occurrence.
C10_RecordsAllOccurrences ==
    page_view =>
        LET E == ExpectedPlaces IN
        /\ search_num = Cardinality(E)
        /\ \A pl \in E : searches[Rank(pl, E)] = MatchRect(pl[1], pl[2], search_string)

\* C10 amended: the recorded matches are the first MaxSearches (100 in the
\* source) non-overlapping occurrences in document order, all of them when
\* there are fewer.
C10_RecordsFirstOccurrences ==
    page_view =>
        LET E == ExpectedPlaces IN
        /\ search_num = IF Cardinality(E) < MaxSearches THEN Cardinality(E) ELSE MaxSearches
        /\ \A pl \in E :
                Rank(pl, E) <= MaxSearches =>
                    searches[Rank(pl, E)] = MatchRect(pl[1], pl[2], search_string)

\* reached: query "aa" on the line "aaa" of a two-line document recorded once,
\* at offset 0, the occurrence at offset 1 left out
C10_Witness ==
    /\ page_view
    /\ search_string = <<97, 97>>
    /\ Len(lines) = 2
    /\ Len(FlatLine(0)) = 3
    /\ search_num = 1
    /\ searches[1].x = 0
    /\ \E off \in 0..2 : PolicyOccursAt(FlatLine(0), off, search_string) /\ off > 0

\* --------------------------------------------------- current match claims
\* the index after n find-next operations over num matches
RECURSIVE FindNextTimes(_, _, _)
FindNextTimes(index, num, n) ==
    IF n = 0 THEN index ELSE FindNextTimes(next_search_index(index, num), num, n - 1)

\* find-next and find-previous are handled: the search is visible, not edited
FindEnabled == page_view /\ search_visible # 0 /\ search_input_active = 0

\* C11: with k >= 1 matches and the search visible, find-next takes the
\* current match index i to (i + 1) mod k and find-previous takes it to
\* (i - 1) mod k; k find-next operations lead back to i.
C11_FindNextPrevCircular ==
    [][(FindEnabled /\ search_num >= 1) =>
          /\ char_func_n => search_index' = (search_index + 1) % search_num
          /\ char_func_N => search_index' = (search_index + search_num - 1) % search_num
          /\ FindNextTimes(search_index, search_num, search_num) = search_index]_vars

\* C11 witness: of at least two matches the last is the current one although
\* the search started at the top of the page, where a recompute selects the
\* first: find-previous has wrapped from 0, or find-next has walked the list.
C11_Witness ==
    /\ FindEnabled
    /\ search_num >= 2
    /\ search_start_scroll_position = 0
    /\ search_index = search_num - 1

\* C12: with an empty match list find-next and find-previous leave the
\* current match index, the match list and the scroll position unchanged.
C12_EmptyListFindIsNoOp ==
    [][(FindEnabled /\ search_num = 0 /\ (char_func_n \/ char_func_N)) =>
          UNCHANGED <<search_index, searches, search_num, scroll_position>>]_vars

\* the recorded matches whose top edge, in document coordinates, is at or
\* below the search start position
AtOrBelowStart ==
    {k \in 0..(search_num - 1) :
        to_document_coordinates(searches[k + 1]).y >= search_start_scroll_position}

\* C13: after a recompute that records a match, the current match is the
\* first recorded match whose top edge is at or below the saved search start
\* position, and the first match of the list when there is none.
C13_CurrentIsFirstAtOrBelowStart ==
    (page_view /\ search_input_active # 0 /\ search_num > 0) =>
        search_index = IF AtOrBelowStart # {} THEN Min(AtOrBelowStart) ELSE 0

\* C13 witness: a recompute has passed over a match above the search start
\* and made a later one the current match.
C13_Witness ==
    /\ page_view
    /\ search_input_active # 0
    /\ search_num >= 2
    /\ search_index >= 1
    /\ search_index \in AtOrBelowStart

\* C13, the other case reached: every recorded match lies above the search
\* start and the first of the list is the current one.
C13_WitnessNoneBelow ==
    /\ page_view
    /\ search_input_active # 0
    /\ search_num >= 1
    /\ AtOrBelowStart = {}
    /\ search_index = 0

\* a step of the query editor that redoes the page-local search
QueryEdited ==
    \/ \E c \in ViewQueryChars : char_func_search_input(c)
    \/ key_backspace_search_input

\* the rectangle of the current match after the step, in document coordinates
NewCurrentRect == to_document_coordinates(searches'[search_index' + 1])

\* a find-next or find-previous step has scrolled the rectangle it read at
\* the new index into view, preferring the scroll position before the step
FindScrollsFromScrollPosition ==
    (FindEnabled /\ (char_func_n \/ char_func_N)) =>
        \E r \in searches_at(search_index') :
            scroll_position' = scroll_in_view(to_document_coordinates(r), scroll_position)

\* C14 as stated: every operation that changes the current match (a query
\* edit that yields matches, find-next, find-previous) scrolls the new current
\* match into view, preferring the scroll position the page had before it.
C14_AllScrollFromScrollPosition ==
    [][/\ (QueryEdited /\ search_num' > 0) =>
              scroll_position' = scroll_in_view(NewCurrentRect, scroll_position)
       /\ FindScrollsFromScrollPosition]_vars

\* C14 amended: a query edit that yields matches scrolls the new current
\* match into view preferring the search start position saved by '/';
\* find-next and find-previous prefer the scroll position before the step.
C14_EditsScrollFromSearchStart ==
    [][/\ (QueryEdited /\ search_num' > 0) =>
              scroll_position' = scroll_in_view(NewCurrentRect, search_start_scroll_position)
       /\ FindScrollsFromScrollPosition]_vars

\* C14 witness: while the query is edited the current match has been scrolled
\* into view from the search start position, which moved the page.
C14_Witness ==
    /\ page_view
    /\ search_input_active # 0
    /\ search_num > 0
    /\ LET r == to_document_coordinates(searches[search_index + 1]) IN
        /\ scroll_position = scroll_in_view(r, search_start_scroll_position)
        /\ scroll_position # search_start_scroll_position

\* ------------------------------------------------------- scrolling claims
\* the largest scroll position: content height less viewport height, or 0
MaxScroll(n_lines, height) ==
    LET content_height == n_lines * FONT_CHAR_HEIGHT + 2 * DIM_DOCUMENT_MARGIN
    IN  IF content_height - height > 0 THEN content_height - height ELSE 0

\* v clamped into [0, MaxScroll] of the displayed page
ClampedIntoRange(v) ==
    LET hi == MaxScroll(Len(lines), window_height)
    IN  IF v < 0 THEN 0 ELSE IF v > hi THEN hi ELSE v

\* what a handler that only calls set_scroll_position(v) has done
SetScrollPositionDone(v) ==
    /\ scroll_position' = ClampedIntoRange(v)
    /\ ~redisplay_needed => (redisplay_needed' <=> scroll_position' # scroll_position)

\* C15: set_scroll_position(v) stores v clamped into [0, max(0, content height
\* - viewport height)], content height being line count * line height + 2 *
\* document margin (100 lines in a viewport of 400: 1000000000 gives content
\* height - 400), and asks for a redisplay exactly when the stored position
\* has changed.
C15_SetScrollPositionClampsAndRedisplaysOnChange ==
    [][/\ \A d \in {-1, 1} :
              (char_func_scroll(d) \/ mouse_scroll_func_page(d)) =>
                  SetScrollPositionDone(scroll_position + d * DIM_SCROLL_AMOUNT)
       /\ \A a \in {-1, 1} :
              scroll_page(a) =>
                  SetScrollPositionDone(scroll_position + a * (window_height - FONT_CHAR_HEIGHT))
       /\ \A target \in {0, 1000000000} :
              key_func_home_end(target) => SetScrollPositionDone(target)
       /\ clamp_scroll_position_in(1000000000, document_height_of(100), 400)
              = 100 * 14 + 2 * DIM_DOCUMENT_MARGIN - 400]_vars

\* C15 witness: after a render, with no search ever shown, the page rests at
\* its largest scroll position and that is no multiple of the scroll amount:
\* a request past the end was clamped, and it asked for a redisplay.
C15_Witness ==
    /\ page_view
    /\ search_visible = 0
    /\ search_start_scroll_position = 0
    /\ scroll_position = MaxScroll(Len(lines), window_height)
    /\ scroll_position % DIM_SCROLL_AMOUNT # 0
    /\ redisplay_needed

\* C16: the scroll position of the displayed page lies in [0, max(0, content
\* height - viewport height)] in every reachable state.
C16_ScrollPositionInRange ==
    page_view =>
        /\ scroll_position >= 0
        /\ scroll_position <= MaxScroll(Len(lines), window_height)

\* rectangles scroll_in_view is called on: a match of every line of the page
\* in document coordinates, and what page->searches holds
ViewedRects ==
    {to_document_coordinates([x |-> 0, y |-> i * FONT_CHAR_HEIGHT,
                              x2 |-> FONT_CHAR_WIDTH, y2 |-> (i + 1) * FONT_CHAR_HEIGHT]) :
        i \in 0..(Len(lines) - 1)}
    \cup {to_document_coordinates(searches[k]) : k \in 1..MaxSearches}

\* preferred positions scroll_in_view is called with: the scroll position of
\* the page, the saved search start, and every half line down the page
PreferredPositions ==
    {scroll_position, search_start_scroll_position} \cup
    {k * FONT_CHAR_WIDTH : k \in 0..MaxViewLines}

\* the margin of scroll_in_view: three line heights
ViewMargin == 3 * FONT_CHAR_HEIGHT

\* C17: scroll_in_view(r, p) yields clamp(r.top - m) when r.top - m is above
\* p, else clamp(r.bottom + m - viewport height) when r.bottom + m is below
\* p + viewport height, else p; when the viewport is at least r's height + 2m
\* tall and the clamp cuts nothing, r widened by m lies inside the viewport.
C17_ScrollInView ==
    page_view =>
        \A r \in ViewedRects : \A p \in PreferredPositions :
            LET m == ViewMargin
                cut == IF r.y - m < p THEN ClampedIntoRange(r.y - m) # r.y - m
                       ELSE IF r.y2 + m > p + window_height
                       THEN ClampedIntoRange(r.y2 + m - window_height)
                                # r.y2 + m - window_height
                       ELSE FALSE
                result == scroll_in_view(r, p)
            IN  /\ result = IF r.y - m < p THEN ClampedIntoRange(r.y - m)
                            ELSE IF r.y2 + m > p + window_height
                            THEN ClampedIntoRange(r.y2 + m - window_height)
                            ELSE p
                /\ (window_height >= (r.y2 - r.y) + 2 * m /\ ~cut) =>
                       /\ r.y - m >= result
                       /\ r.y2 + m <= result + window_height

\* C17 witness: a query edit has scrolled the current match into view by
\* moving the page, away from both ends of its range, to where the match
\* widened by the margin just fits.
C17_Witness ==
    /\ page_view
    /\ search_input_active # 0
    /\ search_num > 0
    /\ window_height >= FONT_CHAR_HEIGHT + 2 * ViewMargin
    /\ scroll_position > 0
    /\ scroll_position < MaxScroll(Len(lines), window_height)
    /\ scroll_position # search_start_scroll_position
    /\ LET r == to_document_coordinates(searches[search_index + 1]) IN
        /\ scroll_position = scroll_in_view(r, search_start_scroll_position)
        /\ \/ scroll_position = r.y - ViewMargin
           \/ scroll_position = r.y2 + ViewMargin - window_height

\* --------------------------------------------------------- capacity claim
\* catalog entries (from 0) the running recompute has scanned and matched
ScannedMatches ==
    IF Len(search_term) = 0 THEN {}
    ELSE {i \in 0..(scan_i - 1) :
            find_string(search_term, manpage_names_chosen[i + 1]) >= 0}

\* C18: neither result list holds more than its capacity (100 in the source):
\* the page-local list stops at the capacity when the page has more
\* occurrences, the launcher's count stops at the capacity when more entries
\* match, and in both cases the count then equals the capacity.
C18_ListsNeverExceedCapacity ==
    /\ page_view =>
          /\ search_num >= 0
          /\ search_num <= MaxSearches
          /\ Cardinality(ExpectedPlaces) >= MaxSearches => search_num = MaxSearches
    /\ display_mode = D_SEARCH =>
          /\ matches_count >= 0
          /\ matches_count <= MaxMatches
          /\ matches_count = IF Cardinality(ScannedMatches) < MaxMatches
                             THEN Cardinality(ScannedMatches) ELSE MaxMatches

\* C18 witness: more entries of the catalog have matched than the result
\* array holds, and the count stands at the capacity.
C18_Witness ==
    /\ SearchDone
    /\ Cardinality(ScannedMatches) > MaxMatches
    /\ matches_count = MaxMatches

\* C18, reached in the man-page view: the page has more occurrences than the
\* match array holds and the count stands at the capacity.
C18_WitnessPage ==
    /\ page_view
    /\ Cardinality(ExpectedPlaces) > MaxSearches
    /\ search_num = MaxSearches

\* ------------------------------------------------------ selection claims
\* C19: every change of the launcher query (a typed character, Backspace,
\* Escape) resets the selection index and the view offset of the results to
\* zero, whatever they were.
C19_QueryChangeResetsSelection ==
    [][search_term' # search_term =>
          /\ results_selected_index' = 0
          /\ results_view_offset' = 0]_vars

\* C19 witness: a recompute has just begun from a selection below the first
\* row in a scrolled result box, and both are back at zero.
C19_Witness ==
    /\ display_mode = D_SEARCH
    /\ selection_before.selected_index > 0
    /\ selection_before.view_offset > 0
    /\ matches_count = 0
    /\ results_selected_index = 0
    /\ results_view_offset = 0

\* C20: in the launcher the selection index stays within [0, max(0,
\* matches_count - 1)] and inside the visible rows of the result box (12 in
\* the source): view offset <= selection <= view offset + rows - 1.
C20_SelectionInRangeAndVisible ==
    display_mode = D_SEARCH =>
        /\ results_selected_index >= 0
        /\ results_selected_index <= (IF matches_count - 1 > 0 THEN matches_count - 1 ELSE 0)
        /\ results_view_offset <= results_selected_index
        /\ results_selected_index <= results_view_offset + N_SHOWN_RESULTS - 1

\* C20 witness: the selection has moved to the last result, past the rows
\* the box shows from the top, and the box has scrolled to keep it in its
\* last row.
C20_Witness ==
    /\ launcher_idle
    /\ matches_count > N_SHOWN_RESULTS
    /\ results_selected_index = matches_count - 1
    /\ results_view_offset = results_selected_index - N_SHOWN_RESULTS + 1
    /\ results_view_offset > 0

\* ---------------------------------------------------- link resolver claims
\* flattening as the specification words it: the bytes are processed in
\* order, a backspace removes the previously output character and does
\* nothing at column 0, any other byte is appended
RECURSIVE Collapse(_, _)
Collapse(bytes, n) ==
    IF n = 0 THEN << >>
    ELSE LET before == Collapse(bytes, n - 1) IN
         IF bytes[n] = 8
         THEN IF Len(before) = 0 THEN before ELSE SubSeq(before, 1, Len(before) - 1)
         ELSE Append(before, bytes[n])

\* the flattened text of line i (from 0) of the document being loaded
FlatText(i) == Collapse(lines[i + 1], Len(lines[i + 1]))

IsBoundary(c) == c \in {32, 44, 9, 10, 13}

IsParenOrBar(c) == c \in {40, 41, 124}

\* a word begins at offset p (from 1) of flat: after a boundary or at the start
\* of the line, the '(', ')' and '|' it cannot start with left out
WordBeginsAt(flat, p) ==
    /\ ~IsBoundary(flat[p])
    /\ ~IsParenOrBar(flat[p])
    /\ \E b \in 0..(p - 1) :
          /\ b = 0 \/ IsBoundary(flat[b])
          /\ \A j \in (b + 1)..(p - 1) : IsParenOrBar(flat[j])

\* the word beginning at p contains a ')' at e that follows a '(' of the word
ClosesAt(flat, p, e) ==
    /\ flat[e] = 41
    /\ \A j \in p..e : ~IsBoundary(flat[j])
    /\ \E o \in p..(e - 1) : flat[o] = 40

\* the tokens name(section) of flat: a word and the first ')' that closes it
TokensOf(flat) ==
    {t \in (1..Len(flat)) \X (1..Len(flat)) :
        /\ WordBeginsAt(flat, t[1])
        /\ ClosesAt(flat, t[1], t[2])
        /\ \A e \in t[1]..(t[2] - 1) : ~ClosesAt(flat, t[1], e)}

\* the Link of the token t of line i: its rectangle from the byte offset and
\* the length of the token, its target from the catalog entry of the key
LinkOfToken(i, flat, t) ==
    LET key == SubSeq(flat, t[1], t[2]) IN
    [document_rectangle |->
         [x |-> (t[1] - 1) * FONT_CHAR_WIDTH,
          y |-> i * get_line_advance,
          x2 |-> (t[1] - 1) * FONT_CHAR_WIDTH + Len(key) * FONT_CHAR_WIDTH,
          y2 |-> i * get_line_advance + get_line_height],
     link |-> (CHOOSE e \in {discovered[k] : k \in 1..Len(discovered)} : e.key = key).file,
     pwd |-> (CHOOSE e \in {discovered[k] : k \in 1..Len(discovered)} : e.key = key).pwd,
     highlight |-> 0]

CatalogKeys == {discovered[k].key : k \in 1..Len(discovered)}

\* the Links of the tokens that are catalog keys
LinksOfTokens ==
    UNION {{LinkOfToken(i, FlatText(i), t) :
                t \in {u \in TokensOf(FlatText(i)) :
                           SubSeq(FlatText(i), u[1], u[2]) \in CatalogKeys}} :
           i \in 0..(Len(lines) - 1)}

\* C21: find_links scans every line of the page, and when it is done the
\* page's Links are exactly the Links of the tokens name(section) that are
\* catalog keys, one for each: rectangle from the token's byte offset and
\* length times the character width, target the key's catalog path and
\* directory.
C21_LinksAreExactlyTheCatalogTokens ==
    /\ load_state.pc # "aborted"
    /\ load_state.pc = "done" =>
          /\ {links[k] : k \in 1..Len(links)} = LinksOfTokens
          /\ Len(links) = Cardinality(LinksOfTokens)

\* the text a Link of line i covers, from its rectangle
TextUnder(l) ==
    LET i == l.document_rectangle.y \div get_line_advance
        first == l.document_rectangle.x \div FONT_CHAR_WIDTH
        last == l.document_rectangle.x2 \div FONT_CHAR_WIDTH
    IN  SubSeq(FlatText(i), first + 1, last)

\* a catalog key stands at offset p (from 1) of flat, right after a boundary
\* or at the start of the line
KeyAfterBoundary(flat, p, key) ==
    /\ p + Len(key) - 1 <= Len(flat)
    /\ SubSeq(flat, p, p + Len(key) - 1) = key
    /\ p = 1 \/ IsBoundary(flat[p - 1])

\* C22: malformed parenthesis syntax never aborts the scan of the links: the
\* scan is never ended early, a Link covers nothing but a catalog key (so a
\* token that is not one has no Link), the word and parenthesis state is
\* reset at every boundary, and every catalog key that starts after a boundary
\* of a line has its Link when the scan is done.
C22_MalformedTokensNeverAbortTheScan ==
    /\ load_state.pc # "aborted"
    /\ (load_state.pc = "scan" /\ load_state.str > 0
          /\ IsBoundary(load_state.line[load_state.str])) =>
            (load_state.word_pos = 0 /\ load_state.opening_paren = 0)
    /\ load_state.pc = "done" =>
          /\ \A k \in 1..Len(links) : TextUnder(links[k]) \in CatalogKeys
          /\ \A i \in 0..(Len(lines) - 1) : \A p \in 1..Len(FlatText(i)) :
                \A key \in CatalogKeys :
                    KeyAfterBoundary(FlatText(i), p, key) =>
                        \E k \in 1..Len(links) :
                            /\ links[k].document_rectangle.y = i * get_line_advance
                            /\ links[k].document_rectangle.x = (p - 1) * FONT_CHAR_WIDTH
                            /\ TextUnder(links[k]) = key

StillAbove255 == {256, 12354}

\* C24: emitting a code point that is still >= 256 after normalization
\* appends nothing to the current fragment, leaves the bytes accumulated so
\* far unchanged and does not stop the accumulation; U+2265 and U+2264 append
\* the two bytes ">=" and "<="; every other accepted code point appends
\* exactly one byte.
C24_DroppedLettersLeaveTheFragment ==
    [][\A letter \in FormatLetters : format_letter(letter) =>
        LET n == Len(lines)
            before == lines[n]
            after == lines'[n]
        IN  /\ Len(lines') = n
            /\ \A k \in 1..(n - 1) : lines'[k] = lines[k]
            /\ IF letter \in StillAbove255
               THEN /\ after = before
                    /\ formatting_page' # NULL
                    /\ load_state'.pc = "format"
               ELSE IF letter = 8805 THEN after = before \o <<62, 61>>
               ELSE IF letter = 8804 THEN after = before \o <<60, 61>>
               ELSE /\ Len(after) = Len(before) + 1
                    /\ SubSeq(after, 1, Len(before)) = before
                    /\ after[Len(after)] \in 0..255]_vars

\* a letter has been dropped and ">=" stands in a line of the page
C24_Witness ==
    /\ load_state.letters_dropped > 0
    /\ \E i \in 1..Len(lines) : \E k \in 1..(Len(lines[i]) - 1) :
          lines[i][k] = 62 /\ lines[i][k + 1] = 61

\* C27: when formatting completes on a page of more than one line whose last
\* line is empty, exactly that line is removed; when the last line is not
\* empty or the page has a single line the lines stay as they are.
C27_OneTrailingEmptyLineIsRemoved ==
    [][(formatting_page # NULL /\ formatting_page' = NULL) =>
        IF Len(lines) > 1 /\ lines[Len(lines)] = << >>
        THEN /\ Len(lines') = Len(lines) - 1
             /\ \A k \in 1..Len(lines') : lines'[k] = lines[k]
        ELSE lines' = lines]_vars

\* formatting is over on a page that ended with two empty lines: one of them
\* is removed and the other stays
C27_Witness ==
    /\ formatting_page = NULL
    /\ load_state.pc = "line"
    /\ load_state.i = 0
    /\ Len(lines) = 2
    /\ lines[1] # << >>
    /\ lines[2] = << >>

\* ----------------------------------------------------------- catalog claims
\* the last of the discovered entries with the key
LastDiscovered(key) ==
    discovered[CHOOSE i \in 1..Len(discovered) :
                   /\ discovered[i].key = key
                   /\ \A j \in (i + 1)..Len(discovered) : discovered[j].key # key]

\* C25: after the catalog is built every discovered key occurs exactly once
\* among the catalog's keys, in the lookup index and in the name list the
\* global search scans, and resolves to the path and directory of the last
\* discovered entry with that key.
C25_KeysUniqueLastEntryWins ==
    database_pc = "done" =>
        /\ DOMAIN manpage_database = {discovered[i].key : i \in 1..Len(discovered)}
        /\ DOMAIN manpage_database_pwd = DOMAIN manpage_database
        /\ \A key \in DOMAIN manpage_database :
              /\ Cardinality({i \in 1..Len(manpage_names) : manpage_names[i] = key}) = 1
              /\ manpage_database[key] = LastDiscovered(key).file
              /\ manpage_database_pwd[key] = LastDiscovered(key).pwd

\* --------------------------------------------------------- directory claims
\* a step of open_new_page
OpenStep == n_alloc' = n_alloc + 1

\* C26: open_new_page first tries to change the working directory to the one
\* recorded on the page displayed before the open, when there is such a page
\* and its directory is non-empty; when the change fails the directory stays
\* and the new page is pushed and displayed as when the change succeeds.
C26_OpenChangesToThePreviousDirectory ==
    [][OpenStep =>
          /\ IF page # NULL /\ doc_pwd[page] # ""
             THEN \/ last_chdir' = "changed" /\ cwd' = doc_pwd[page]
                  \/ last_chdir' = "failed" /\ cwd' = cwd
             ELSE last_chdir' = "skipped" /\ cwd' = cwd
          /\ page' = n_alloc'
          /\ page' \notin freed'
          /\ stack_pos' = stack_pos + 1
          /\ page_stack'[stack_pos'] = page'
          /\ \A i \in 1..stack_pos : page_stack'[i] = page_stack[i]
          /\ \A i \in (stack_pos' + 1)..Len(page_stack') : page_stack'[i] = NULL
          /\ display_mode' = D_MANPAGE
          /\ doc_pwd'[page'] \in ManDirs]_vars

\* a page opened over another one after the change of directory failed
C26_Witness ==
    /\ last_chdir = "failed"
    /\ display_mode = D_MANPAGE
    /\ stack_pos >= 2
    /\ page = page_stack[stack_pos]
    /\ page \notin freed
    /\ doc_pwd[page_stack[stack_pos - 1]] # ""
    /\ cwd # doc_pwd[page_stack[stack_pos - 1]]

\* ----------------------------------------------------------- manpath claims
\* the static state right after the k-th call: whether an array is cached
CachedAfter(k) == \E i \in 1..k : manpath_calls[i].ret # 0

\* C28: once a call of get_man_paths_from_manpath_executable has returned a
\* non-zero count, every later call returns the same count and the same array
\* without running manpath again; a call that returned 0 caches nothing, so
\* the next call runs manpath again.
C28_SuccessIsCachedFailureIsRetried ==
    /\ \A i, j \in 1..Len(manpath_calls) :
          (i < j /\ manpath_calls[i].ret # 0) =>
              /\ manpath_calls[j].ret = manpath_calls[i].ret
              /\ manpath_calls[j].paths = manpath_calls[i].paths
              /\ ~manpath_calls[j].ran
    /\ \A i \in 1..Len(manpath_calls) :
          (manpath_calls[i].ret = 0 /\ ~CachedAfter(i - 1)) =>
              /\ manpath_calls[i].ran
              /\ i = Len(manpath_calls) =>
                    manpath_paths = << >> /\ number_of_manpath_paths = 0
    /\ (manpath_paths # << >>) <=> CachedAfter(Len(manpath_calls))
    /\ manpath_paths # << >> =>
          /\ Len(manpath_paths) = number_of_manpath_paths
          /\ manpath_paths = manpath_calls[Len(manpath_calls)].paths

\* a failed call, then a call that found two paths, then a call served from
\* the cache
C28_Witness ==
    /\ Len(manpath_calls) = 3
    /\ manpath_calls[1].ret = 0
    /\ manpath_calls[2].ret = 2
    /\ manpath_calls[2].ran
    /\ manpath_calls[3].ret = 2
    /\ ~manpath_calls[3].ran
    /\ manpath_calls[3].paths = <<<<97>>, << >>>>

\* ------------------------------------------------- page search index claims
\* C29: in every state of the page-local search the current match index is 0
\* when there are no matches and otherwise lies in 0..search_num - 1, so it
\* never points outside the match array.
C29_SearchIndexWithinMatches ==
    /\ search_num = 0 => search_index = 0
    /\ search_num > 0 => (0 <= search_index /\ search_index < search_num)
    /\ 0 <= search_index /\ search_index < MaxSearches

\* ---------------------------------------------------- displayed page claims
\* C30: whenever the man-page view is shown, stack_pos >= 1, page is the
\* document at slot stack_pos - 1 of page_stack and has not been destroyed;
\* every slot below stack_pos holds a live document.
C30_DisplayedPageIsLiveTopOfStack ==
    /\ display_mode = D_MANPAGE =>
          /\ stack_pos >= 1
          /\ stack_pos <= sb_count(page_stack)
          /\ page # NULL
          /\ page = page_stack[stack_pos]
          /\ page \notin freed
    /\ stack_pos <= sb_count(page_stack)
    /\ \A i \in 1..stack_pos : page_stack[i] # NULL /\ page_stack[i] \notin freed

\* the view shows the first page again after pages ahead of it were destroyed
\* and replaced
C30_Witness ==
    /\ display_mode = D_MANPAGE
    /\ stack_pos = 1
    /\ sb_count(page_stack) >= 2
    /\ page_stack[2] # NULL
    /\ freed # {}
    /\ page = page_stack[1]

\* ------------------------------------------------- launcher re-entry claims
\* the documents the stack of s holds
DocsHeld(s) == {s.page_stack[i] : i \in {j \in 1..Len(s.page_stack) : s.page_stack[j] # NULL}}

\* C31: when back() at the oldest entry has shown the launcher, the next
\* open destroys every document the stack held, the one displayed before
\* included, and the new document is alone in the history (back() from it
\* shows the launcher); when Ctrl-F has shown the launcher, the next open keeps
\* the documents up to the displayed one.
C31_LauncherByBackDropsHistory ==
    \A k \in 1..(Len(hist) - 1) :
        LET pre == hist[k].pre
            post == Post(k + 1)
        IN  hist[k + 1].op = "open" =>
              /\ (hist[k].op = "back" /\ pre.stack_pos <= 1) =>
                    /\ DocsHeld(pre) \subseteq post.freed
                    /\ pre.page \in post.freed
                    /\ post.stack_pos = 1
                    /\ post.page = post.page_stack[1]
                    /\ post.page \notin post.freed
                    /\ DocsHeld(post) = {post.page}
                    /\ (k + 2 <= Len(hist) /\ hist[k + 2].op = "back") =>
                            Post(k + 2).display_mode = D_SEARCH
              /\ hist[k].op = "launcher" =>
                    /\ post.stack_pos = pre.stack_pos + 1
                    /\ \A i \in 1..pre.stack_pos :
                          /\ post.page_stack[i] = pre.page_stack[i]
                          /\ post.page_stack[i] \notin post.freed
                    /\ post.page = post.page_stack[post.stack_pos]

\* reached: back() at the oldest of two documents, an open, and back() again
C31_Witness ==
    /\ Len(hist) = 3
    /\ hist[1].op = "back"
    /\ hist[1].pre.stack_pos = 1
    /\ Cardinality(DocsHeld(hist[1].pre)) = 2
    /\ hist[2].op = "open"
    /\ hist[3].op = "back"
    /\ display_mode = D_SEARCH
    /\ Cardinality(freed) >= 2

\* reached: Ctrl-F on the second of two documents and an open
C31_WitnessCtrlF ==
    /\ Len(hist) >= 2
    /\ hist[Len(hist) - 1].op = "launcher"
    /\ hist[Len(hist) - 1].pre.stack_pos = 2
    /\ hist[Len(hist)].op = "open"
    /\ stack_pos = 3

\* ---------------------------------------------------- back and forward claims
\* C32: when the displayed document is not the oldest entry, back() followed
\* at once by forward() restores the state before the back(): the displayed
\* document, the stack position and contents, and the scroll position and
\* search state of every document.
C32_BackThenForwardRestores ==
    \A k \in 1..(Len(hist) - 1) :
        (/\ hist[k].op = "back"
         /\ hist[k].pre.stack_pos > 1
         /\ hist[k + 1].op = "forward") =>
            Post(k + 1) = hist[k].pre

\* reached: back() and forward() between two documents that were both
\* scrolled, one with its search shown
C32_Witness ==
    /\ Len(hist) >= 2
    /\ hist[Len(hist) - 1].op = "back"
    /\ hist[Len(hist) - 1].pre.stack_pos = 2
    /\ hist[Len(hist)].op = "forward"
    /\ stack_pos = 2
    /\ doc_fields[page_stack[1]].scroll_position = DIM_SCROLL_AMOUNT
    /\ doc_fields[page_stack[2]].scroll_position = DIM_SCROLL_AMOUNT
    /\ doc_fields[page_stack[2]].search_visible = 1

\* -------------------------------------------------------------- link clicks
\* C33: a release of the left button opens a link only when the press right
\* before it was over that link; a press on the scrollbar, or a press and
\* release that ended elsewhere, never lets a later release open a link.
C33_ReleaseOpensOnlyThePressedLink ==
    \A k \in 2..Len(hist) :
        hist[k].op = "open" =>
            /\ hist[k - 1].op = "press"
            /\ link_under_cursor(hist[k - 1].file) # NULL
            /\ links[link_under_cursor(hist[k - 1].file)].link = hist[k].file

\* ------------------------------------------------------- search input claims
\* query, match list and highlight visibility of the page-local search
SearchKept ==
    /\ search_string' = search_string
    /\ searches' = searches
    /\ search_num' = search_num
    /\ search_index' = search_index
    /\ search_visible' = search_visible

\* C34: after '/' at scroll position s and any query edits with the window
\* unchanged, Escape (Ctrl-C, Ctrl-D) ends the input with the scroll position
\* equal to s and Enter ends it leaving the scroll position where the current
\* match put it; both keep the query, the match list and the visibility.
C34_EscapeRestoresEnterKeeps ==
    [][/\ key_escape_search_input =>
              /\ scroll_position' = search_start_scroll_position
              /\ search_input_active' = 0
              /\ SearchKept
       /\ key_enter_search_input =>
              /\ scroll_position' = scroll_position
              /\ search_input_active' = 0
              /\ SearchKept]_vars

\* ------------------------------------------------------ query buffer claims
\* C35: no query buffer overflows, whatever is typed: the launcher query
\* with its terminating zero fits search_term and the page-local query with
\* its terminating zero fits search_string.
C35_QueriesFitTheirBuffers ==
    /\ Len(search_term) + 1 <= SearchTermSize
    /\ Len(search_string) + 1 <= SearchStringSize

\* C36: while find_links scans a line, the index at which the next byte of
\* the candidate word is written stays below the capacity of current_word,
\* and no byte is written past it.
C36_WordIndexBelowCapacity ==
    /\ load_state.word_pos < CurrentWordSize
    /\ load_state.pc # "aborted"

\* the position at which the query matches the key of entry k of matches
MatchPosition(k) ==
    find_string(search_term, manpage_names_chosen[matches[k].idx + 1])

\* C37: of two keys that match the query, the one whose match starts earlier
\* has the strictly higher goodness, whatever the lengths of the two keys.
C37_EarlierPositionScoresHigher ==
    \A k, m \in 1..matches_count :
        MatchPosition(k) < MatchPosition(m) => matches[k].goodness > matches[m].goodness

\* the span the formatter appends to, and the bytes allocated for it
LastSpan == lines[Len(lines)]

\* C38 as stated: after any emit-character or advance event on a fragment
\* its length is strictly less than its allocated capacity.
C38_LengthBelowCapacityAfterAnyEvent ==
    (formatting /\ load_state.span_events = 1) => Len(LastSpan) < load_state.buffer_size

\* C38: a fragment that has stored a byte is strictly shorter than its
\* allocated capacity, so that a zero byte follows its bytes, and one
\* doubling is always enough, also for an event that stores two bytes; a
\* fragment that has stored nothing has no buffer.
C38_StoredBytesBelowCapacity ==
    formatting =>
        /\ Len(LastSpan) > 0 => Len(LastSpan) < load_state.buffer_size
        /\ Len(LastSpan) = 0 => load_state.buffer_size = 0

\* a span that was doubled for an event of two bytes
C38_Witness ==
    /\ formatting
    /\ load_state.buffer_size = 2 * STARTING_SPAN_SIZE
    /\ Len(LastSpan) = STARTING_SPAN_SIZE
    /\ LastSpan[Len(LastSpan)] = 61

\* the entries of the returned array a path was stored in
PopulatedPaths == {k \in DOMAIN manpath_paths : manpath_paths[k] # << >>}

\* split_buffer_into_paths stores no more entries than were allocated
EntriesWrittenWithinAllocated ==
    manpath_paths # << >> =>
        Len(split_buffer_into_paths(manpath_buffer, 1, << >>)) <= Len(manpath_paths)

\* C39: whatever line manpath printed, the count returned equals the number
\* of populated entries of the returned array, and no more entries are
\* written than were allocated.
C39_CountEqualsPopulatedEntries ==
    /\ \A k \in DOMAIN manpath_calls :
           manpath_calls[k].ret =
               Cardinality({j \in DOMAIN manpath_calls[k].paths :
                               manpath_calls[k].paths[j] # << >>})
    /\ number_of_manpath_paths = Cardinality(PopulatedPaths)
    /\ EntriesWrittenWithinAllocated

====
